---- MODULE Spec2Model ----
(***************************************************************************)
(* Plugin socket gateway of the soundboard server                          *)
(* (src/src/socket/pluginHandler.ts).  The file holds two builds of the    *)
(* handler: the single-identity build (lines 1-304) and the multi-identity *)
(* build (lines 306-625).  The variable `variant` says which build runs;   *)
(* it is chosen in Init and never changes.                                 *)
(*                                                                         *)
(* Every `await` of a handler is a suspension point: a handler is one      *)
(* action up to its first await and one action per resumption.  Code       *)
(* between two awaits runs atomically (single-threaded event loop).        *)
(* socket.disconnect() runs the socket's "disconnect" listeners            *)
(* synchronously and does nothing on a socket that is already              *)
(* disconnected.                                                           *)
(***************************************************************************)
EXTENDS Integers, Sequences, FiniteSets, Bags, TLC

VARIABLES
    variant,            \* "single" | "multi": which build of pluginHandler.ts
    users,              \* user table: steamId64 -> [id, username, isBanned]
    sounds,             \* sound table, in creation order (oldest first)
    files,              \* files on disk: set of <<steamId64, filename>>
    connectedPlayers,   \* module-level Map steamId64 -> socket
    status,             \* per socket: "idle" (not yet connected) | "open" | "closed"
    socketData,         \* per socket: PluginSocketData
    authTimeout,        \* per socket: TRUE while the setTimeout is pending
    elapsed,            \* per socket: TRUE once 10 s have passed since connection
    pending,            \* bag of handlers suspended at an await
    authLog,            \* per socket: the auth messages received, in order, each with
                        \* its steamId64, how its handler ended ("await" until then) and
                        \* whether another socket's auth for the same steamId64 was
                        \* awaiting its lookup when it arrived
    nOther,             \* messages other than auth received so far, over all sockets
    clientClosed,       \* per socket: TRUE if the disconnect came from the client/transport
    authErrors,         \* per socket: the error texts of the auth_error messages emitted on it
    last,               \* the handler step that ran last, with what it emitted
    reqs,               \* the HTTP requests that mutate sounds, each with its position in
                        \* its handler, what it has done so far and its response
    quotaCache,         \* redis keys quota:count:<userId>: per user id the stored string
                        \* and the seconds it has left, in ticks
    settingsStore,      \* table Setting: key -> value, for the keys that have a row
    settingsCache,      \* redis key settings:all
    redisUp,            \* FALSE while the calls to redis reject
    since,              \* per user id: ticks since a sound of the user was last created
                        \* or deleted with its invalidation done, up to QuotaTtl
    limiterBuild,       \* "memory" | "redis": which build of requireUploadRateLimit
    rateLimits,         \* the limiter's counters ratelimit:upload:<steamId64>: per identity
                        \* the points consumed and the seconds the counter has left
    admitted            \* per identity: the requests the limiter has let through, each
                        \* with its age in seconds (up to limitDuration) and whether it
                        \* was let through because the limiter's store failed

vars == <<variant, users, sounds, files, connectedPlayers, status, socketData,
          authTimeout, elapsed, pending, authLog, nOther, clientClosed, authErrors, last,
          reqs, quotaCache, settingsStore, settingsCache, redisUp, since,
          limiterBuild, rateLimits, admitted>>

dbVars == <<users, sounds, files>>
limitVars == <<limiterBuild, rateLimits, admitted>>
cacheVars == <<quotaCache, settingsStore, settingsCache, redisUp, since, limitVars>>

(***************************************************************************)
(* Bounds                                                                  *)
(***************************************************************************)
NConn == 2          \* sockets that connect during a run
MaxAuth == 2        \* auth messages received over all sockets during a run
MaxOther == 1       \* other messages received over all sockets during a run
MaxReq == 2         \* HTTP requests that mutate sounds during a run
MaxHttp == 1        \* of these, requests served while sockets connect and authenticate
QuotaTtl == 2       \* ticks of the clock in QUOTA_TTL_SECONDS
MaxUploads == 7     \* upload requests of one identity that reach the rate limiter
MaxList == 1        \* requests served besides the MaxReq requests that mutate sounds

\* socket.id of the sockets
SocketIds == <<"c1", "c2", "c3", "c4">>
Conns == {SocketIds[i] : i \in 1..NConn}
None == "none"

(***************************************************************************)
(* Inputs                                                                  *)
(***************************************************************************)
\* steamId64 values of the user table
SteamIds == {"u1", "u2", "ub"}
\* a steamId64 that is a string but has no user row
Unknown == "ux"
\* a steamId64 field that is missing, empty or not a string
BadSteamId == "bad"
AuthInputs == SteamIds \cup {Unknown, BadSteamId}

SoundIds == {"s1", "s2", "s3"}
NoSound == "sx"
PlayInputs == SoundIds \cup {NoSound}

\* type field of a message; NoType stands for a message that is not an object
\* or whose type is missing or not a string
NoType == "notype"
Messages ==
    {[type |-> "auth", arg |-> s] : s \in AuthInputs}
    \cup {[type |-> "get_sounds", arg |-> None]}
    \cup {[type |-> "play_sound", arg |-> s] : s \in PlayInputs}
    \cup {[type |-> "bogus", arg |-> None], [type |-> NoType, arg |-> None]}

(***************************************************************************)
(* Persistence layer (prisma) as the handlers read it                      *)
(***************************************************************************)
UserRows ==
    [u1 |-> [id |-> "id1", username |-> "alice", isBanned |-> FALSE],
     u2 |-> [id |-> "id2", username |-> "bob",   isBanned |-> FALSE],
     ub |-> [id |-> "id3", username |-> "carol", isBanned |-> TRUE]]

SoundRows ==
    << [id |-> "s1", userId |-> "id1", name |-> <<"n", "1">>, filename |-> "f1", duration |-> 1],
       [id |-> "s2", userId |-> "id2", name |-> <<"n", "2">>, filename |-> "f2", duration |-> 2],
       [id |-> "s3", userId |-> "id1", name |-> <<"n", "3">>, filename |-> "f3", duration |-> 3] >>

\* null result of a user query
NoUser == [id |-> None, username |-> None, isBanned |-> FALSE]
\* null result of a sound query
NoRow == [id |-> None, userId |-> None, name |-> <<>>, filename |-> None, duration |-> 0]

\* prisma.user.findUnique({ where: { steamId64 } }): the row or null
FindUser(steamId64) ==
    IF steamId64 \in DOMAIN users THEN users[steamId64] ELSE NoUser

RECURSIVE SelectDesc(_, _)
\* the rows of seq owned by userId, newest first, projected on id, name, duration
SelectDesc(seq, userId) ==
    IF seq = <<>> THEN <<>>
    ELSE LET r == Head(seq)
             rest == SelectDesc(Tail(seq), userId)
         IN IF r.userId = userId
            THEN Append(rest, [id |-> r.id, name |-> r.name, duration |-> r.duration])
            ELSE rest

\* a query without its `where: { userId }`
SoundsOfUser_AnyOwner(userId) ==
    [i \in 1..Len(sounds) |->
        LET r == sounds[Len(sounds) - i + 1]
        IN [id |-> r.id, name |-> r.name, duration |-> r.duration]]

\* sounds: { orderBy: { createdAt: "desc" }, select: { id, name, duration } }
SoundsOfUser(userId) == SelectDesc(sounds, userId)

\* prisma.sound.findFirst / findUnique by id: the row or null
FindSound(soundId) ==
    IF \E i \in 1..Len(sounds) : sounds[i].id = soundId
    THEN sounds[CHOOSE i \in 1..Len(sounds) : sounds[i].id = soundId]
    ELSE NoRow

\* steamId64 of the user row with this id (sound.user.steamId64)
SteamIdOfUser(userId) ==
    IF \E s \in DOMAIN users : users[s].id = userId
    THEN CHOOSE s \in DOMAIN users : users[s].id = userId
    ELSE None

(***************************************************************************)
(* Messages sent by the server                                             *)
(***************************************************************************)
\* `sounds` carries the SoundInfo list (or the one SoundInfo of a sound_data),
\* `audio` the file whose bytes a sound_data carries
Out(to, type, steamId64, soundId, error, list) ==
    [to |-> to, type |-> type, steamId64 |-> steamId64, soundId |-> soundId,
     error |-> error, sounds |-> list, audio |-> <<>>]

AuthError(to, steamId64, error) == Out(to, "auth_error", steamId64, None, error, <<>>)
ErrorMsg(to, error) == Out(to, "error", None, None, error, <<>>)
SoundError(to, steamId64, soundId, error) == Out(to, "sound_error", steamId64, soundId, error, <<>>)

\* the steamId64 field exists only in the messages of the multi-identity build
Tag(steamId64) == IF variant = "multi" THEN steamId64 ELSE None

Displaced == "Connected from another location"
TimedOut == "Authentication timeout"

(***************************************************************************)
(* socketData                                                              *)
(***************************************************************************)
\* single: { authenticated: false }; multi: { authenticatedPlayers: new Map() }
\* authenticatedPlayers keeps the insertion order of its keys, as a Map does
NewSocketData ==
    [authenticated |-> FALSE, steamId64 |-> None, userId |-> None,
     authenticatedPlayers |-> <<>>]

Keys(players) == {players[i] : i \in 1..Len(players)}

\* Map.set(key, ...): a new key goes last, an existing key keeps its place
MapSet(players, key) ==
    IF key \in Keys(players) THEN players ELSE Append(players, key)

(***************************************************************************)
(* A world is the part of the state that socket.disconnect() touches.      *)
(***************************************************************************)
World == [cp |-> connectedPlayers, st |-> status, timer |-> authTimeout]

\* a disconnect listener that empties the registry (clear() for delete())
DisconnectSingle_Clear(w, c) ==
    [w EXCEPT !.timer[c] = FALSE,
              !.cp = IF socketData[c].steamId64 # None
                     THEN [s \in DOMAIN w.cp |-> None]
                     ELSE w.cp]

\* socket.on("disconnect") of the single-identity build
DisconnectSingle(w, c) ==
    [w EXCEPT !.timer[c] = FALSE,
              !.cp = IF socketData[c].steamId64 # None
                     THEN [w.cp EXCEPT ![socketData[c].steamId64] = None]
                     ELSE w.cp]

\* socket.on("disconnect") of the multi-identity build
DisconnectMulti(w, c) ==
    [w EXCEPT !.cp = [s \in DOMAIN w.cp |->
                        IF s \in Keys(socketData[c].authenticatedPlayers) /\ w.cp[s] = c
                        THEN None ELSE w.cp[s]]]

OnDisconnect(w, c) ==
    IF variant = "single" THEN DisconnectSingle(w, c) ELSE DisconnectMulti(w, c)

\* socket.disconnect(): nothing on a socket that is not connected; otherwise the
\* socket leaves the namespace and its "disconnect" listeners run at once
SocketDisconnect(w, c) ==
    IF w.st[c] # "open" THEN w
    ELSE OnDisconnect([w EXCEPT !.st[c] = "closed"], c)

(***************************************************************************)
(* Settings (schemas/settings.ts, settingsService.ts) and the quota cache  *)
(* (services/quotaCache).  A call to redis rejects while redisUp is FALSE. *)
(***************************************************************************)
SettingKeys ==
    {"maxSoundsPerUser", "maxFileSize", "maxDuration", "cooldownSeconds", "allowedFormats"}

DEFAULT_SETTINGS ==
    [maxSoundsPerUser |-> 25, maxFileSize |-> 5242880, maxDuration |-> 10,
     cooldownSeconds |-> 0, allowedFormats |-> {"audio/ogg", "audio/mpeg", "audio/wav"}]

\* a schema whose maxSoundsPerUser has no lower bound
ValidSetting_NoMin(k, v) ==
    CASE k = "maxSoundsPerUser" -> v <= 100
      [] k = "maxFileSize" -> v >= 102400 /\ v <= 52428800
      [] k = "maxDuration" -> v >= 1 /\ v <= 60
      [] k = "cooldownSeconds" -> v >= 0 /\ v <= 300
      [] OTHER -> v # {}

\* the constraint of settingsSchema on the value of one key
ValidSetting(k, v) ==
    CASE k = "maxSoundsPerUser" -> v >= 1 /\ v <= 100
      [] k = "maxFileSize" -> v >= 102400 /\ v <= 52428800
      [] k = "maxDuration" -> v >= 1 /\ v <= 60
      [] k = "cooldownSeconds" -> v >= 0 /\ v <= 300
      [] OTHER -> v # {}

\* settingsSchema.safeParse(s).success
settingsSchema(s) == \A k \in SettingKeys : ValidSetting(k, s[k])

\* partialSettingsSchema.safeParse(p).success: every key is optional
partialSettingsSchema(p) == \A k \in DOMAIN p : ValidSetting(k, p[k])

\* { ...base, ...over }
Merge(base, over) ==
    [k \in SettingKeys |-> IF k \in DOMAIN over THEN over[k] ELSE base[k]]

\* a partial with no key, a table Setting with no row
NoPartial == [k \in {} |-> 0]

\* the value of the key settings:all: nothing, a string JSON.parse rejects, or
\* the JSON of a settings object
NoSettingsEntry == [state |-> "absent", value |-> DEFAULT_SETTINGS]
GarbageSettings == [state |-> "garbage", value |-> DEFAULT_SETTINGS]
CachedSettings(s) == [state |-> "value", value |-> s]

\* the maxSoundsPerUser setting in force when the server starts
maxSoundsPerUser == 3
StoredSettings == ("maxSoundsPerUser" :> maxSoundsPerUser)

\* cacheSettings(s): setEx, a failure is logged and swallowed
cacheSettings(s) == IF redisUp THEN CachedSettings(s) ELSE settingsCache

\* invalidateSettingsCache() on the cache entry e: del, a failure is swallowed
invalidateSettingsCache(e) == IF redisUp THEN NoSettingsEntry ELSE e

\* getSettings(): the settings it returns and the cache entry it leaves.
\* dbOk says whether prisma.setting.findMany resolves.
getSettings(dbOk) ==
    IF redisUp /\ settingsCache.state = "value" /\ settingsSchema(settingsCache.value)
    THEN [settings |-> settingsCache.value, cache |-> settingsCache]
    ELSE IF dbOk /\ DOMAIN settingsStore # {}
                 /\ settingsSchema(Merge(DEFAULT_SETTINGS, settingsStore))
    THEN [settings |-> Merge(DEFAULT_SETTINGS, settingsStore),
          cache |-> cacheSettings(Merge(DEFAULT_SETTINGS, settingsStore))]
    ELSE [settings |-> DEFAULT_SETTINGS, cache |-> settingsCache]

UserIds == {UserRows[s].id : s \in DOMAIN UserRows}

\* parseInt of a string that does not start with a number
NaN == -1

\* the value of a key quota:count:<userId>: nothing, the decimal string of a
\* count, or a string that is not a number; ttl is the time it has left
NoQuotaEntry == [state |-> "absent", count |-> 0, ttl |-> 0]
GarbageQuota == [state |-> "garbage", count |-> 0, ttl |-> QuotaTtl]
CachedCount(count) == [state |-> "count", count |-> count, ttl |-> QuotaTtl]

\* a cache read that gives null for a string that is not a number
getCachedQuotaCount_Strict(userId) ==
    IF redisUp /\ quotaCache[userId].state = "count"
    THEN [hit |-> TRUE, count |-> quotaCache[userId].count]
    ELSE [hit |-> FALSE, count |-> 0]

\* getCachedQuotaCount(userId): hit is `cached !== null` of the caller
getCachedQuotaCount(userId) ==
    IF redisUp /\ quotaCache[userId].state # "absent"
    THEN [hit |-> TRUE,
          count |-> IF quotaCache[userId].state = "count"
                    THEN quotaCache[userId].count ELSE NaN]
    ELSE [hit |-> FALSE, count |-> 0]

\* setCachedQuotaCount(userId, count): setEx with the TTL, a failure is swallowed
setCachedQuotaCount(userId, count) ==
    IF redisUp THEN [quotaCache EXCEPT ![userId] = CachedCount(count)] ELSE quotaCache

\* invalidateQuotaCache(userId): del, a failure is swallowed
invalidateQuotaCache(userId) ==
    IF redisUp THEN [quotaCache EXCEPT ![userId] = NoQuotaEntry] ELSE quotaCache

\* a gate that lets the count reach the limit
AtLeast_Above(count, max) == count # NaN /\ count > max

\* count >= max of JavaScript: false when count is NaN
AtLeast(count, max) == count # NaN /\ count >= max

\* a sound of the user was created or deleted just now
Mutated(userId) == [since EXCEPT ![userId] = 0]

(***************************************************************************)
(* The upload rate limiter (rate-limiter-flexible): one counter per        *)
(* identity, created by the first consume that finds none and gone         *)
(* limitDuration seconds later; every consume adds one point.              *)
(***************************************************************************)
points == 5             \* points: 5
limitDuration == 60     \* duration: 60

\* no counter for the identity
NoLimit == [consumed |-> 0, ttl |-> 0]

\* the counter after consume(steamId64)
Consumed(entry) ==
    IF entry.ttl = 0
    THEN [consumed |-> 1, ttl |-> limitDuration]
    ELSE [entry EXCEPT !.consumed = @ + 1]

\* a limiter that rejects one request too late
Exceeds_OneLate(entry) == entry.consumed > points + 1

\* consume rejects with a RateLimiterRes once more than `points` are consumed
Exceeds(entry) == entry.consumed > points

\* a let-through request, just now
Admission(open) == [age |-> 0, open |-> open]

(***************************************************************************)
(* Bookkeeping shared by the actions                                       *)
(***************************************************************************)
RECURSIVE Record(_, _)
\* authErrors after the emissions of out
Record(em, out) ==
    IF out = <<>> THEN em
    ELSE LET m == Head(out)
         IN Record(IF m.type = "auth_error" THEN [em EXCEPT ![m.to] = @ \cup {m.error}] ELSE em,
                   Tail(out))

RECURSIVE SumLen(_, _)
SumLen(f, S) ==
    IF S = {} THEN 0
    ELSE LET x == CHOOSE y \in S : TRUE IN Len(f[x]) + SumLen(f, S \ {x})

\* auth messages received so far
NAuth == SumLen(authLog, Conns)

Last(op, c, arg, res, existing, out) ==
    [op |-> op, conn |-> c, arg |-> arg, res |-> res, existing |-> existing, out |-> out]

\* the effect of one handler step: the world it leaves, what it emitted
Effect(w, out, lst) ==
    /\ connectedPlayers' = w.cp
    /\ status' = w.st
    /\ authTimeout' = w.timer
    /\ authErrors' = Record(authErrors, out)
    /\ last' = lst

\* a handler suspended at an await, with the locals it resumes with
Suspended(c, kind, arg, uid, idx) ==
    [conn |-> c, kind |-> kind, arg |-> arg, uid |-> uid, idx |-> idx,
     row |-> NoRow, path |-> <<>>, list |-> <<>>]

\* an HTTP request: `row` is the sound row its handler found, `staged` says the
\* temporary file of an upload was written, `committed` that the mutation of
\* the sound table was done, `notified` that notifyPlayerSoundsUpdated was called
\* the buffer of an upload: its length, the MIME type fileTypeFromBuffer detects
\* (None when it detects none), whether ffprobe reads a duration, and the duration
File(size, mime, probe, duration) ==
    [size |-> size, mime |-> mime, probe |-> probe, duration |-> duration]
NoFile == File(0, None, FALSE, 0)

\* `result` is what createSound / deleteSound returned ("throw" when it rejected),
\* `max` and `count` the quota and the count that createSound resolved;
\* `partial` is the body of a PUT /admin/settings, `settings` the settings the
\* request resolved or returns, `wroteStore` and `wroteCache` say that the
\* request has written the table Setting and the key settings:all
Request(kind, user, arg, name, file) ==
    [kind |-> kind, user |-> user, arg |-> arg, name |-> name, file |-> file,
     pc |-> "begin", row |-> NoRow, staged |-> FALSE, committed |-> FALSE,
     notified |-> FALSE, max |-> 0, count |-> 0, partial |-> NoPartial,
     settings |-> DEFAULT_SETTINGS, wroteStore |-> FALSE, wroteCache |-> FALSE,
     result |-> None, response |-> None]

NoRequest == [Request(None, None, None, <<>>, NoFile) EXCEPT !.pc = "idle"]

\* the requests of a run, in the order they arrive
Slots == 1..(MaxReq + MaxList)

Suspend(p) == pending (+) SetToBag({p})
Resume(p) == pending (-) SetToBag({p})

InitBase ==
    /\ variant \in {"single", "multi"}
    /\ users = UserRows
    /\ sounds = SoundRows
    /\ files = {<<"u1", "f1">>, <<"u2", "f2">>}     \* the file of s3 is missing
    /\ connectedPlayers = [s \in SteamIds |-> None]
    /\ status = [c \in Conns |-> "idle"]
    /\ socketData = [c \in Conns |-> NewSocketData]
    /\ authTimeout = [c \in Conns |-> FALSE]
    /\ elapsed = [c \in Conns |-> FALSE]
    /\ pending = EmptyBag
    /\ authLog = [c \in Conns |-> <<>>]
    /\ nOther = 0
    /\ clientClosed = [c \in Conns |-> FALSE]
    /\ authErrors = [c \in Conns |-> {}]
    /\ last = Last("init", None, None, None, None, <<>>)
    /\ reqs = [r \in Slots |-> NoRequest]
    /\ quotaCache = [u \in UserIds |-> NoQuotaEntry]
    /\ since = [u \in UserIds |-> QuotaTtl]
    /\ rateLimits = [s \in SteamIds |-> NoLimit]
    /\ admitted = [s \in SteamIds |-> <<>>]

\* the server starts with redis reachable, an empty settings cache and the
\* stored settings
Init ==
    /\ InitBase
    /\ settingsStore = StoredSettings
    /\ settingsCache = NoSettingsEntry
    /\ redisUp = TRUE
    /\ limiterBuild = "redis"

\* the socket that connects next: sockets are numbered in the order they connect
NextSocket == SocketIds[Cardinality({d \in Conns : status[d] # "idle"}) + 1]

\* pluginNamespace.on("connection"): fresh socketData; the single-identity build
\* arms the 10 s authentication timer, the multi-identity build has none
Connect(c) ==
    /\ status[c] = "idle"
    /\ c = NextSocket
    /\ status' = [status EXCEPT ![c] = "open"]
    /\ socketData' = [socketData EXCEPT ![c] = NewSocketData]
    /\ authTimeout' = [authTimeout EXCEPT ![c] = (variant = "single")]
    /\ last' = Last("connection", c, None, None, None, <<>>)
    /\ UNCHANGED <<variant, dbVars, cacheVars, reqs, connectedPlayers, elapsed, pending,
                   authLog, nOther, clientClosed, authErrors>>

\* the client leaves or the transport drops: the "disconnect" listeners run
ClientDisconnect(c) ==
    /\ status[c] = "open"
    /\ clientClosed' = [clientClosed EXCEPT ![c] = TRUE]
    /\ Effect(SocketDisconnect(World, c), <<>>, Last("disconnect", c, None, None, None, <<>>))
    /\ UNCHANGED <<variant, dbVars, cacheVars, reqs, socketData, elapsed, pending, authLog, nOther>>

\* a callback whose test of socketData.authenticated is inverted
TimeoutFires_Inverted(c) == authTimeout[c] /\ socketData[c].authenticated

\* lines 26-27: the callback runs if the timer was not cleared, and acts if the
\* socket is not authenticated
TimeoutFires(c) == authTimeout[c] /\ ~socketData[c].authenticated

\* 10 s after the connection: the setTimeout callback runs if it was not cleared
TimerExpire(c) ==
    /\ status[c] = "open"
    /\ ~elapsed[c]
    /\ variant = "single" => authTimeout[c]
    /\ elapsed' = [elapsed EXCEPT ![c] = TRUE]
    /\ IF TimeoutFires(c)
       THEN LET out == <<AuthError(c, None, TimedOut)>>
                w == SocketDisconnect([World EXCEPT !.timer[c] = FALSE], c)
            IN Effect(w, out, Last("authTimeout", c, None, "fired", None, out))
       ELSE Effect([World EXCEPT !.timer[c] = FALSE], <<>>,
                   Last("authTimeout", c, None, IF authTimeout[c] THEN "skipped" ELSE "none",
                        None, <<>>))
    /\ UNCHANGED <<variant, dbVars, cacheVars, reqs, socketData, pending, authLog, nOther, clientClosed>>

(***************************************************************************)
(* socket.on("message"): the synchronous part, up to the first await       *)
(***************************************************************************)
\* a check that lets every message through
isValidMessage_AcceptsAll(m) == TRUE

\* isValidMessage: an object with a string `type`
isValidMessage(m) == m.type # NoType

\* is an auth for steamId64 of another socket suspended at its lookup?
Overlaps(c, steamId64) ==
    \E p \in BagToSet(pending) : p.kind = "auth" /\ p.arg = steamId64 /\ p.conn # c

\* handleAuth up to `await prisma.user.findUnique`.  The single-identity build
\* clears the timer first and disconnects on a bad steamId64; the
\* multi-identity build has no timer and only answers.
AuthBegin(c, m) ==
    LET w0 == IF variant = "single" THEN [World EXCEPT !.timer[c] = FALSE] ELSE World
    IN /\ authLog' = [authLog EXCEPT ![c] = Append(@, [steamId64 |-> m.arg,
                                                         res |-> IF m.arg = BadSteamId
                                                                 THEN "invalid" ELSE "await",
                                                         overlaps |-> Overlaps(c, m.arg)])]
       /\ IF m.arg = BadSteamId
          THEN LET out == <<AuthError(c, Tag(""), "Invalid SteamID64")>>
                   w == IF variant = "single" THEN SocketDisconnect(w0, c) ELSE w0
               IN /\ Effect(w, out, Last("handleAuth", c, m.arg, "invalid", None, out))
                  /\ pending' = pending
          ELSE /\ Effect(w0, <<>>, Last("message", c, m.arg, "await", None, <<>>))
               /\ pending' = Suspend(Suspended(c, "auth", m.arg, None, Len(authLog[c]) + 1))

\* handleGetSounds up to `await prisma.sound.findMany`
GetSoundsBegin(c) ==
    /\ authLog' = authLog
    /\ IF variant = "single"
       THEN IF ~socketData[c].authenticated \/ socketData[c].userId = None
            THEN LET out == <<AuthError(c, None, "Not authenticated")>>
                 IN /\ Effect(World, out, Last("handleGetSounds", c, None, "unauth", None, out))
                    /\ pending' = pending
            ELSE /\ Effect(World, <<>>, Last("message", c, None, "await", None, <<>>))
                 /\ pending' = Suspend(Suspended(c, "get_sounds", None, socketData[c].userId, 0))
       ELSE LET players == socketData[c].authenticatedPlayers
            IN IF players = <<>>
               THEN /\ Effect(World, <<>>, Last("handleGetSounds", c, None, "empty", None, <<>>))
                    /\ pending' = pending
               ELSE /\ Effect(World, <<>>, Last("message", c, None, "await", None, <<>>))
                    /\ pending' = Suspend(Suspended(c, "get_sounds", players[1],
                                                    users[players[1]].id, 1))

\* handlePlaySound up to `await prisma.sound.findFirst / findUnique`
PlaySoundBegin(c, m) ==
    /\ authLog' = authLog
    /\ IF /\ variant = "single"
          /\ \/ ~socketData[c].authenticated
             \/ socketData[c].userId = None
             \/ socketData[c].steamId64 = None
       THEN LET out == <<AuthError(c, None, "Not authenticated")>>
            IN /\ Effect(World, out, Last("handlePlaySound", c, m.arg, "unauth", None, out))
               /\ pending' = pending
       ELSE /\ Effect(World, <<>>, Last("message", c, m.arg, "await", None, <<>>))
            /\ pending' = Suspend(Suspended(c, "play_sound", m.arg,
                                            IF variant = "single" THEN socketData[c].userId ELSE None,
                                            0))

Receive(c, m) ==
    /\ status[c] = "open"
    /\ IF m.type = "auth"
       THEN NAuth < MaxAuth /\ nOther' = nOther
       ELSE nOther < MaxOther /\ nOther' = nOther + 1
    /\ IF ~isValidMessage(m)
       THEN LET out == <<ErrorMsg(c, "Invalid message format")>>
            IN /\ Effect(World, out, Last("message", c, m.type, "malformed", None, out))
               /\ UNCHANGED <<pending, authLog>>
       ELSE CASE m.type = "auth" -> AuthBegin(c, m)
              [] m.type = "get_sounds" -> GetSoundsBegin(c)
              [] m.type = "play_sound" -> PlaySoundBegin(c, m)
              [] OTHER ->
                    LET out == <<ErrorMsg(c, "Unknown message type")>>
                    IN /\ Effect(World, out, Last("message", c, m.type, "unknown", None, out))
                       /\ UNCHANGED <<pending, authLog>>
    /\ UNCHANGED <<variant, dbVars, cacheVars, reqs, socketData, elapsed, clientClosed>>

(***************************************************************************)
(* Resumptions                                                             *)
(***************************************************************************)
\* catch (error) of the message listener: a rejected await ends the handler
Caught(p, op) ==
    LET out == <<ErrorMsg(p.conn, "Internal server error")>>
    IN /\ Effect(World, out, Last(op, p.conn, p.arg, "throw", None, out))
       /\ pending' = Resume(p)
       /\ UNCHANGED <<variant, dbVars, cacheVars, reqs, socketData, elapsed, nOther, clientClosed>>

\* authLog once the handler of the auth message p has ended with res
Ended(p, res) == [authLog EXCEPT ![p.conn][p.idx].res = res]

\* a handleAuth that never disconnects the socket it finds registered
Displaces_Never(c, existing) == FALSE

\* lines 152-153 / 449-450: does handleAuth on socket c displace `existing`?
Displaces(c, existing) ==
    /\ existing # None
    /\ variant = "multi" => existing # c

\* lines 161-165 / 459-463
StoreConnection(sd, steamId64, user) ==
    IF variant = "single"
    THEN [sd EXCEPT !.authenticated = TRUE, !.userId = user.id, !.steamId64 = steamId64]
    ELSE [sd EXCEPT !.authenticatedPlayers = MapSet(@, steamId64)]

\* connectedPlayers.set before the existing socket is disconnected
RegisterConnection_InsertFirst(w, c, steamId64) ==
    LET existing == w.cp[steamId64]
        w1 == [w EXCEPT !.cp[steamId64] = c]
    IN IF Displaces(c, existing) THEN SocketDisconnect(w1, existing) ELSE w1

\* connectedPlayers.set without disconnecting the existing socket
RegisterConnection_NoDisplace(w, c, steamId64) == [w EXCEPT !.cp[steamId64] = c]

\* lines 151-166 / 448-464 on the registry and the sockets: the existing socket
\* is disconnected, then connectedPlayers.set(steamId64, socket)
RegisterConnection(w, c, steamId64) ==
    LET existing == w.cp[steamId64]
        w1 == IF Displaces(c, existing) THEN SocketDisconnect(w, existing) ELSE w
    IN [w1 EXCEPT !.cp[steamId64] = c]

\* a handleAuth without the isBanned check
AuthResult_IgnoresBan(user) ==
    IF user = NoUser THEN "notfound" ELSE "ok"

\* how handleAuth ends for the row findUnique returned
AuthResult(user) ==
    IF user = NoUser THEN "notfound" ELSE IF user.isBanned THEN "banned" ELSE "ok"

\* handleAuth from the result of findUnique to its end
AuthFinish(p) ==
    LET c == p.conn
        steamId64 == p.arg
        user == FindUser(steamId64)
        res == AuthResult(user)
    IN /\ authLog' = Ended(p, res)
       /\ IF res # "ok"
          THEN LET out == <<AuthError(c, Tag(steamId64),
                                      IF res = "notfound"
                                      THEN "User not found. Please login via web panel first."
                                      ELSE "Your account is banned")>>
                   w == IF variant = "single" THEN SocketDisconnect(World, c) ELSE World
               IN /\ Effect(w, out, Last("handleAuth", c, steamId64, res, None, out))
                  /\ socketData' = socketData
          ELSE LET existing == connectedPlayers[steamId64]
                   hit == Displaces(c, existing)
                   out == (IF hit THEN <<AuthError(existing, Tag(steamId64), Displaced)>>
                           ELSE <<>>)
                          \o <<Out(c, "auth_success", Tag(steamId64), None, None,
                                   SoundsOfUser(user.id))>>
               IN /\ Effect(RegisterConnection(World, c, steamId64), out,
                            Last("handleAuth", c, steamId64, "ok",
                                 IF hit THEN existing ELSE None, out))
                  /\ socketData' = [socketData EXCEPT ![c] = StoreConnection(@, steamId64, user)]

AuthResume(p) ==
    /\ p.kind = "auth"
    /\ BagIn(p, pending)
    /\ pending' = Resume(p)
    /\ AuthFinish(p)
    /\ UNCHANGED <<variant, dbVars, cacheVars, reqs, elapsed, nOther, clientClosed>>

\* findUnique rejects (the database is unreachable)
AuthThrow(p) ==
    /\ p.kind = "auth"
    /\ BagIn(p, pending)
    /\ authLog' = Ended(p, "throw")
    /\ Caught(p, "handleAuth")

\* a rejected query of handleGetSounds or handlePlaySound
ReadThrow(p) ==
    /\ p.kind \in {"get_sounds", "play_sound"}
    /\ BagIn(p, pending)
    /\ authLog' = authLog
    /\ Caught(p, IF p.kind = "get_sounds" THEN "handleGetSounds" ELSE "handlePlaySound")

\* handleGetSounds from the result of findMany: the single-identity build
\* answers once; the multi-identity build answers for the player it queried
\* and goes on to the next key of the (live) authenticatedPlayers map
GetSoundsResume(p) ==
    /\ p.kind = "get_sounds"
    /\ BagIn(p, pending)
    /\ LET c == p.conn
           out == <<Out(c, "sounds_list", Tag(p.arg), None, None, SoundsOfUser(p.uid))>>
           players == socketData[c].authenticatedPlayers
           more == variant = "multi" /\ p.idx < Len(players)
       IN /\ Effect(World, out, Last("handleGetSounds", c, p.arg,
                                     IF more THEN "await" ELSE "ok", None, out))
          /\ pending' = IF more
                        THEN Resume(p) (+) SetToBag({Suspended(c, "get_sounds", players[p.idx + 1],
                                                               users[players[p.idx + 1]].id,
                                                               p.idx + 1)})
                        ELSE Resume(p)
    /\ UNCHANGED <<variant, dbVars, cacheVars, reqs, socketData, elapsed, authLog, nOther, clientClosed>>

\* a query by id alone in both builds
PlayLookup_Unscoped(p) == FindSound(p.arg)

\* the row handlePlaySound gets: findFirst({ id, userId }) in the single-identity
\* build, findUnique({ id }) with its user in the multi-identity build
PlayLookup(p) ==
    LET row == FindSound(p.arg)
    IN IF variant = "single" /\ row.userId # p.uid THEN NoRow ELSE row

\* the outcome of handlePlaySound once the row is known: "read" when it goes on
\* to read the file, otherwise the sound_error it answers with
PlayOutcome(p, row, owner, path) ==
    IF row = NoRow \/ owner = None
    THEN [go |-> "notfound", steamId64 |-> Tag(""), error |-> "Sound not found"]
    ELSE IF variant = "multi" /\ owner \notin Keys(socketData[p.conn].authenticatedPlayers)
    THEN [go |-> "unauth", steamId64 |-> owner, error |-> "Not authenticated"]
    ELSE IF variant = "multi" /\ path \notin files
    THEN [go |-> "missing", steamId64 |-> owner, error |-> "Sound file not found on server"]
    ELSE [go |-> "read", steamId64 |-> Tag(owner), error |-> None]

\* handlePlaySound from the result of the sound query to `await fs.readFile`
PlaySoundResume(p) ==
    /\ p.kind = "play_sound"
    /\ BagIn(p, pending)
    /\ LET c == p.conn
           row == PlayLookup(p)
           owner == IF variant = "single" THEN socketData[c].steamId64
                    ELSE SteamIdOfUser(row.userId)
           path == <<owner, row.filename>>
           o == PlayOutcome(p, row, owner, path)
       IN IF o.go = "read"
          THEN /\ Effect(World, <<>>, Last("handlePlaySound", c, p.arg, "await", None, <<>>))
               /\ pending' = Resume(p) (+) SetToBag({[Suspended(c, "read_file", p.arg, owner, 0)
                                                      EXCEPT !.row = row, !.path = path]})
          ELSE LET out == <<SoundError(c, o.steamId64, p.arg, o.error)>>
               IN /\ Effect(World, out, Last("handlePlaySound", c, p.arg, o.go, None, out))
                  /\ pending' = Resume(p)
    /\ UNCHANGED <<variant, dbVars, cacheVars, reqs, socketData, elapsed, authLog, nOther, clientClosed>>

\* a handler that answers sound_data whether or not the read succeeded
FileReply_AlwaysData(p, ok) ==
    <<[Out(p.conn, "sound_data", Tag(p.uid), p.row.id, None,
           <<[id |-> p.row.id, name |-> p.row.name, duration |-> p.row.duration]>>)
       EXCEPT !.audio = p.path]>>

\* lines 250-266 / 568-586: sound_data with the bytes of the file read, or the
\* sound_error of the catch branch
FileReply(p, ok) ==
    IF ok
    THEN <<[Out(p.conn, "sound_data", Tag(p.uid), p.row.id, None,
                <<[id |-> p.row.id, name |-> p.row.name, duration |-> p.row.duration]>>)
            EXCEPT !.audio = p.path]>>
    ELSE <<SoundError(p.conn, Tag(p.uid), p.arg, "Failed to read sound file")>>

\* handlePlaySound from the result of fs.readFile: sound_data with the bytes,
\* or the catch branch when the read fails (ioError: a failure of the disk
\* other than a missing file)
ReadFileResume(p, ioError) ==
    /\ p.kind = "read_file"
    /\ BagIn(p, pending)
    /\ LET c == p.conn
           ok == p.path \in files /\ ~ioError
           out == FileReply(p, ok)
       IN /\ Effect(World, out, Last("handlePlaySound", c, p.arg,
                                     IF ok THEN "ok" ELSE "readfail", None, out))
          /\ pending' = Resume(p)
    /\ UNCHANGED <<variant, dbVars, cacheVars, reqs, socketData, elapsed, authLog, nOther, clientClosed>>

Next ==
    \/ \E c \in Conns : Connect(c)
    \/ \E c \in Conns : ClientDisconnect(c)
    \/ \E c \in Conns : TimerExpire(c)
    \/ \E c \in Conns, m \in Messages : Receive(c, m)
    \/ \E p \in BagToSet(pending) : AuthResume(p)
    \/ \E p \in BagToSet(pending) : AuthThrow(p)
    \/ \E p \in BagToSet(pending) : ReadThrow(p)
    \/ \E p \in BagToSet(pending) : GetSoundsResume(p)
    \/ \E p \in BagToSet(pending) : PlaySoundResume(p)
    \/ \E p \in BagToSet(pending), ioError \in BOOLEAN : ReadFileResume(p, ioError)

Spec == Init /\ [][Next]_vars

(***************************************************************************)
(* The authentication lifecycle alone: sockets that send only auth         *)
(* messages.  handleGetSounds and handlePlaySound write none of            *)
(* connectedPlayers, socketData, the timer or the socket's connection.     *)
(***************************************************************************)
AuthMessages == {m \in Messages : m.type = "auth"}

NextAuth ==
    \/ \E c \in Conns : Connect(c)
    \/ \E c \in Conns : ClientDisconnect(c)
    \/ \E c \in Conns : TimerExpire(c)
    \/ \E c \in Conns, m \in AuthMessages : Receive(c, m)
    \/ \E p \in BagToSet(pending) : AuthResume(p)
    \/ \E p \in BagToSet(pending) : AuthThrow(p)

SpecAuth == Init /\ [][NextAuth]_vars

(***************************************************************************)
(* Sockets that authenticate as users that exist and are not banned, and   *)
(* then ask for sounds.                                                    *)
(***************************************************************************)
ReadMessages == {m \in Messages : m.type = "auth" => m.arg \in {"u1", "u2"}}

NextRead ==
    \/ \E c \in Conns : Connect(c)
    \/ \E c \in Conns : ClientDisconnect(c)
    \/ \E c \in Conns, m \in ReadMessages : Receive(c, m)
    \/ \E p \in BagToSet(pending) : AuthResume(p)
    \/ \E p \in BagToSet(pending) : ReadThrow(p)
    \/ \E p \in BagToSet(pending) : GetSoundsResume(p)
    \/ \E p \in BagToSet(pending) : PlaySoundResume(p)
    \/ \E p \in BagToSet(pending), ioError \in BOOLEAN : ReadFileResume(p, ioError)

SpecRead == Init /\ [][NextRead]_vars

(***************************************************************************)
(* HTTP routes that mutate sounds (POST, PATCH, DELETE /sounds and         *)
(* DELETE /admin/sounds) and notifyPlayerSoundsUpdated.  requireAuth has   *)
(* put the session's user in req.user.                                     *)
(***************************************************************************)
NAME_MIN_LENGTH == 1
NAME_MAX_LENGTH == 32

\* a name is the sequence of its characters
Space == " "
RECURSIVE TrimStart(_)
TrimStart(s) == IF s # <<>> /\ Head(s) = Space THEN TrimStart(Tail(s)) ELSE s
RECURSIVE TrimEnd(_)
TrimEnd(s) ==
    IF s # <<>> /\ s[Len(s)] = Space THEN TrimEnd(SubSeq(s, 1, Len(s) - 1)) ELSE s
\* name.trim()
Trim(s) == TrimEnd(TrimStart(s))

\* a name check that measures the name as it was sent
validateSoundName_Untrimmed(name) ==
    IF Len(name) < NAME_MIN_LENGTH THEN "NAME_TOO_SHORT"
    ELSE IF Len(name) > NAME_MAX_LENGTH THEN "NAME_TOO_LONG"
    ELSE "valid"

\* validateSoundName(name): "valid" or the code of its error
validateSoundName(name) ==
    IF Len(Trim(name)) < NAME_MIN_LENGTH THEN "NAME_TOO_SHORT"
    ELSE IF Len(Trim(name)) > NAME_MAX_LENGTH THEN "NAME_TOO_LONG"
    ELSE "valid"

\* names a request can carry
As(n) == [i \in 1..n |-> "a"]
Clip == <<"c", "l", "i", "p">>
Empty == <<>>
Blank == <<Space, Space>>
Padded == <<Space>> \o As(NAME_MAX_LENGTH) \o <<Space>>
LongName == As(NAME_MAX_LENGTH + 1)
Names == {Clip, Empty, Blank, Padded, LongName, <<Space, "a">>}

\* the MIME types the settings allow, with the variants of audio/wav
allowedMimes(settings) ==
    settings.allowedFormats
    \cup (IF "audio/wav" \in settings.allowedFormats THEN {"audio/wave", "audio/x-wav"} ELSE {})

\* a validation that reads the duration before it looks at the type
validateAudioFile_DurationFirst(file, settings) ==
    IF file.size > settings.maxFileSize THEN "FILE_TOO_LARGE"
    ELSE IF ~file.probe THEN "INVALID_AUDIO"
    ELSE IF file.duration > settings.maxDuration THEN "DURATION_TOO_LONG"
    ELSE IF file.mime = None THEN "INVALID_FILE_TYPE"
    ELSE IF file.mime \notin allowedMimes(settings) THEN "INVALID_AUDIO_FORMAT"
    ELSE "valid"

\* validateAudioFile(buffer, tempFilePath) under the settings it read: "valid"
\* or the code of its error
validateAudioFile(file, settings) ==
    IF file.size > settings.maxFileSize THEN "FILE_TOO_LARGE"
    ELSE IF file.mime = None THEN "INVALID_FILE_TYPE"
    ELSE IF file.mime \notin allowedMimes(settings) THEN "INVALID_AUDIO_FORMAT"
    ELSE IF ~file.probe THEN "INVALID_AUDIO"
    ELSE IF file.duration > settings.maxDuration THEN "DURATION_TOO_LONG"
    ELSE "valid"

\* buffers a request can carry
GoodFile == File(1000, "audio/mpeg", TRUE, 5)
Junk == File(1000, None, FALSE, 0)
Files ==
    {File(size, mime, probe, duration) :
        size \in {1000, 6000000},
        mime \in {None, "image/png", "audio/mpeg", "audio/x-wav"},
        probe \in BOOLEAN,
        duration \in {5, 11}}

\* uuidv4() of the request: temp_<uuid>, <uuid>.ogg and the id of the new row
TempNames == <<"t1", "t2", "t3", "t4", "t5", "t6">>
FinalNames == <<"o1", "o2", "o3", "o4", "o5", "o6">>
NewIds == <<"n1", "n2", "n3", "n4", "n5", "n6">>

\* a user id that has no row
NoUserId == "idx"

Uploads == {Request("upload", "u1", None, n, f) : f \in {GoodFile, Junk}, n \in {Clip, Blank}}
Renames ==
    {Request("rename", u, sid, Clip, NoFile) : u \in {"u1", "u2"}, sid \in {"s1", NoSound}}
Deletes ==
    {Request("delete", u, sid, <<>>, NoFile) : u \in {"u1", "u2"}, sid \in {"s1", NoSound}}
AdminDeletes == {Request("adminDelete", None, sid, <<>>, NoFile) : sid \in {"s1", NoSound}}
\* DELETE /admin/users/:id by the admin u2
UserDeletes ==
    {Request("deleteUser", "u2", uid, <<>>, NoFile) : uid \in {"id1", "id2", NoUserId}}
Requests == Uploads \cup Renames \cup Deletes \cup AdminDeletes

RouteOf(kind) ==
    CASE kind = "upload" -> "POST /sounds"
      [] kind = "rename" -> "PATCH /sounds/:id"
      [] kind = "delete" -> "DELETE /sounds/:id"
      [] kind = "deleteUser" -> "DELETE /admin/users/:id"
      [] kind = "list" -> "GET /sounds"
      [] kind \in {"ban", "unban"} -> "PATCH /admin/users/:id"
      [] kind = "getSettings" -> "GET /admin/settings"
      [] kind = "putSettings" -> "PUT /admin/settings"
      [] OTHER -> "DELETE /admin/sounds/:id"

\* statusMap of POST /sounds
StatusOf(code) ==
    CASE code = "FILE_TOO_LARGE" -> "413"
      [] code \in {"INVALID_FILE_TYPE", "INVALID_AUDIO_FORMAT"} -> "415"
      [] code \in {"INVALID_AUDIO", "DURATION_TOO_LONG"} -> "422"
      [] code = "QUOTA_EXCEEDED" -> "403"
      [] OTHER -> "400"

\* requests are numbered in the order they arrive
NextRequest == Cardinality({r \in Slots : reqs[r].pc # "idle"}) + 1

\* res.status(response).json(...): the request is over
Done(rec, response) == [rec EXCEPT !.pc = "done", !.response = response]

\* the service returned { success: false, error: { code } }
Fail(rec, code, response) == [Done(rec, response) EXCEPT !.result = code]

\* the service rejected: the catch block of the route answers 500
Throw(rec) == [Done(rec, "500") EXCEPT !.result = "throw"]

\* one step of the handler of request r: nothing of the sockets changes
ReqStep(r, rec) ==
    /\ reqs' = [reqs EXCEPT ![r] = rec]
    /\ last' = Last(RouteOf(rec.kind), None, rec.arg,
                    IF rec.pc = "done" THEN rec.response ELSE "await", None, <<>>)
    /\ UNCHANGED <<variant, connectedPlayers, status, socketData, authTimeout,
                   elapsed, authLog, nOther, clientClosed, authErrors, limitVars>>

\* a step that leaves the table Setting alone
HttpStep(r, rec) == ReqStep(r, rec) /\ UNCHANGED <<settingsStore, redisUp>>

\* req.user.id of the request
UserId(rec) == UserRows[rec.user].id

\* getSoundById(userId, soundId): findFirst({ id, userId })
getSoundById(userId, soundId) ==
    LET row == FindSound(soundId)
    IN IF row.userId = userId THEN row ELSE NoRow

\* prisma.sound.count({ where: { userId } })
CountSounds(userId) == Cardinality({i \in 1..Len(sounds) : sounds[i].userId = userId})

\* prisma.sound.delete({ where: { id } })
DeleteRowOf(soundId) ==
    LET Keep(row) == row.id # soundId
    IN SelectSeq(sounds, Keep)

\* onDelete: Cascade of Sound.user
DeleteRowsOfUser(userId) ==
    LET Keep(row) == row.userId # userId
    IN SelectSeq(sounds, Keep)

\* prisma.sound.update({ where: { id }, data: { name } })
UpdateRowOf(soundId, name) ==
    [i \in 1..Len(sounds) |->
        IF sounds[i].id = soundId THEN [sounds[i] EXCEPT !.name = name] ELSE sounds[i]]

\* a notify that looks at the first open socket instead of the registry
NotifyTarget_AnyOpen(steamId64) ==
    IF \E c \in Conns : status[c] = "open"
    THEN CHOOSE c \in Conns : status[c] = "open"
    ELSE None

\* line 272 / 592: const socket = connectedPlayers.get(steamId64)
NotifyTarget(steamId64) == connectedPlayers[steamId64]

\* notifyPlayerSoundsUpdated(steamId64) up to its await: nothing without a
\* registered socket, otherwise suspended at prisma.user.findUnique
NotifyCall(steamId64) ==
    IF NotifyTarget(steamId64) = None
    THEN pending
    ELSE Suspend(Suspended(NotifyTarget(steamId64), "notify", steamId64, None, 0))

\* the route after a successful mutation: notify (not awaited), then the response
Succeed(r, rec, response) ==
    /\ HttpStep(r, [Done(rec, response) EXCEPT !.committed = TRUE, !.notified = TRUE,
                                               !.result = "success"])
    /\ pending' = NotifyCall(rec.user)

\* the route is entered.  POST and PATCH answer 400 NO_NAME to an empty name
\* without calling the service; createSound step 1 / renameSound step 1 is
\* validateSoundName; then the first await
HttpBegin(r, q) ==
    /\ r = NextRequest
    /\ reqs[r].pc = "idle"
    /\ q.user # None => q.user \in DOMAIN users
    /\ IF q.kind \in {"upload", "rename"} /\ q.name = Empty
       THEN HttpStep(r, Done(q, "400"))
       ELSE IF q.kind \in {"upload", "rename"} /\ validateSoundName(q.name) # "valid"
       THEN HttpStep(r, Fail(q, validateSoundName(q.name), "400"))
       ELSE IF q.kind \in {"deleteUser", "ban", "unban"} /\ q.arg = UserId(q)
       THEN HttpStep(r, Fail(q, "SELF_MODIFICATION", "400"))
       ELSE HttpStep(r, [q EXCEPT !.pc = IF q.kind = "upload" THEN "quota" ELSE "find"])
    /\ UNCHANGED <<users, sounds, files, pending, quotaCache, settingsCache, since>>

\* createSound step 2 once the count is known: count >= settings.maxSoundsPerUser
QuotaGate(rec) ==
    IF AtLeast(rec.count, rec.max)
    THEN Fail(rec, "QUOTA_EXCEEDED", StatusOf("QUOTA_EXCEEDED"))
    ELSE [rec EXCEPT !.pc = "stage"]

\* createSound step 2: getSettings(), then getUserSoundCount up to the answer
\* of the cache: a hit is the count, a miss goes on to prisma.sound.count
UploadQuota(r, dbOk) ==
    LET rec == reqs[r]
        got == getSettings(dbOk)
        cached == getCachedQuotaCount(UserId(rec))
        known == [rec EXCEPT !.max = got.settings.maxSoundsPerUser, !.count = cached.count]
    IN /\ rec.kind = "upload"
       /\ rec.pc = "quota"
       /\ settingsCache' = got.cache
       /\ IF cached.hit
          THEN HttpStep(r, QuotaGate(known))
          ELSE HttpStep(r, [known EXCEPT !.pc = "count"])
       /\ UNCHANGED <<users, sounds, files, pending, quotaCache, since>>

\* getUserSoundCount: prisma.sound.count; createSound has no try block around
\* it, so its rejection is the rejection of createSound
UploadCount(r, ok) ==
    LET rec == reqs[r]
    IN /\ rec.kind = "upload"
       /\ rec.pc = "count"
       /\ IF ok
          THEN HttpStep(r, [rec EXCEPT !.pc = "cacheset", !.count = CountSounds(UserId(rec))])
          ELSE HttpStep(r, Throw(rec))
       /\ UNCHANGED <<users, sounds, files, pending, quotaCache, settingsCache, since>>

\* getUserSoundCount: setCachedQuotaCount of the count it read, then the gate
UploadCacheSet(r) ==
    LET rec == reqs[r]
    IN /\ rec.kind = "upload"
       /\ rec.pc = "cacheset"
       /\ quotaCache' = setCachedQuotaCount(UserId(rec), rec.count)
       /\ HttpStep(r, QuotaGate(rec))
       /\ UNCHANGED <<users, sounds, files, pending, settingsCache, since>>

\* createSound steps 3-4: ensureUserDir (outside the try block), then
\* fs.writeFile of the temp file (inside it)
UploadStage(r, outcome) ==
    LET rec == reqs[r]
    IN /\ rec.kind = "upload"
       /\ rec.pc = "stage"
       /\ CASE outcome = "ok" ->
                 /\ HttpStep(r, [rec EXCEPT !.pc = "validate", !.staged = TRUE])
                 /\ files' = files \cup {<<rec.user, TempNames[r]>>}
            [] outcome = "mkdir" ->
                 HttpStep(r, Throw(rec)) /\ files' = files
            [] OTHER ->
                 HttpStep(r, Fail(rec, "INTERNAL_ERROR", "400")) /\ files' = files
       /\ UNCHANGED <<users, sounds, pending, quotaCache, settingsCache, since>>

\* createSound step 5: validateAudioFile, which reads the settings itself; an
\* invalid file is unlinked and its error returned
UploadValidate(r, dbOk) ==
    LET rec == reqs[r]
        got == getSettings(dbOk)
        code == validateAudioFile(rec.file, got.settings)
    IN /\ rec.kind = "upload"
       /\ rec.pc = "validate"
       /\ settingsCache' = got.cache
       /\ IF code = "valid"
          THEN HttpStep(r, [rec EXCEPT !.pc = "convert"]) /\ files' = files
          ELSE /\ HttpStep(r, Fail(rec, code, StatusOf(code)))
               /\ files' = files \ {<<rec.user, TempNames[r]>>}
       /\ UNCHANGED <<users, sounds, pending, quotaCache, since>>

\* lines 151-153: the catch block unlinks tempPath, and only tempPath
Cleanup(fs, rec, r) == fs \ {<<rec.user, TempNames[r]>>}

\* createSound steps 6-7: convertToOggOpus writes finalPath, then the temp file
\* is unlinked; a failed conversion may leave a partial finalPath behind
UploadConvert(r, outcome) ==
    LET rec == reqs[r]
        final == <<rec.user, FinalNames[r]>>
    IN /\ rec.kind = "upload"
       /\ rec.pc = "convert"
       /\ CASE outcome = "ok" ->
                 /\ HttpStep(r, [rec EXCEPT !.pc = "record"])
                 /\ files' = (files \cup {final}) \ {<<rec.user, TempNames[r]>>}
            [] outcome = "failed" ->
                 /\ HttpStep(r, Fail(rec, "INTERNAL_ERROR", "400"))
                 /\ files' = Cleanup(files, rec, r)
            [] OTHER ->
                 /\ HttpStep(r, Fail(rec, "INTERNAL_ERROR", "400"))
                 /\ files' = Cleanup(files \cup {final}, rec, r)
       /\ UNCHANGED <<users, sounds, pending, quotaCache, settingsCache, since>>

\* createSound steps 8-10 and the route: fs.stat, prisma.sound.create (it
\* rejects when the user row is gone), invalidateQuotaCache, then notify and
\* 201; a failure goes to the catch block
UploadRecord(r, outcome) ==
    LET rec == reqs[r]
        row == [id |-> NewIds[r], userId |-> UserId(rec), name |-> Trim(rec.name),
                filename |-> FinalNames[r], duration |-> rec.file.duration]
    IN /\ rec.kind = "upload"
       /\ rec.pc = "record"
       /\ IF outcome = "ok" /\ rec.user \in DOMAIN users
          THEN /\ sounds' = Append(sounds, row)
               /\ files' = files
               /\ quotaCache' = invalidateQuotaCache(UserId(rec))
               /\ since' = Mutated(UserId(rec))
               /\ Succeed(r, rec, "201")
          ELSE /\ HttpStep(r, Fail(rec, "INTERNAL_ERROR", "400"))
               /\ files' = Cleanup(files, rec, r)
               /\ UNCHANGED <<sounds, pending, quotaCache, since>>
       /\ UNCHANGED <<users, settingsCache>>

\* renameSound step 2: getSoundById
RenameFind(r) ==
    LET rec == reqs[r]
        row == getSoundById(UserId(rec), rec.arg)
    IN /\ rec.kind = "rename"
       /\ rec.pc = "find"
       /\ IF row = NoRow
          THEN HttpStep(r, Fail(rec, "NOT_FOUND", "404"))
          ELSE HttpStep(r, [rec EXCEPT !.pc = "update", !.row = row])
       /\ UNCHANGED <<users, sounds, files, pending, quotaCache, settingsCache, since>>

\* renameSound step 3 and the route: prisma.sound.update (it throws when the
\* row is gone or the database fails), then notify and 200
RenameUpdate(r, ok) ==
    LET rec == reqs[r]
    IN /\ rec.kind = "rename"
       /\ rec.pc = "update"
       /\ IF ok /\ FindSound(rec.arg) # NoRow
          THEN /\ sounds' = UpdateRowOf(rec.arg, Trim(rec.name))
               /\ Succeed(r, rec, "200")
          ELSE /\ HttpStep(r, Throw(rec))
               /\ UNCHANGED <<sounds, pending>>
       /\ UNCHANGED <<users, files, quotaCache, settingsCache, since>>

\* deleteSound steps 1-2 / deleteAnySound: the row is looked up (scoped to the
\* user, or by id alone for the admin) and its file is unlinked
DeleteFind(r) ==
    LET rec == reqs[r]
        row == IF rec.kind = "delete" THEN getSoundById(UserId(rec), rec.arg)
               ELSE FindSound(rec.arg)
        owner == IF rec.kind = "delete" THEN rec.user ELSE SteamIdOfUser(row.userId)
    IN /\ rec.kind \in {"delete", "adminDelete"}
       /\ rec.pc = "find"
       /\ IF row = NoRow
          THEN HttpStep(r, Fail(rec, "NOT_FOUND", "404")) /\ files' = files
          ELSE /\ HttpStep(r, [rec EXCEPT !.pc = "row", !.row = row])
               /\ files' = files \ {<<owner, row.filename>>}
       /\ UNCHANGED <<users, sounds, pending, quotaCache, settingsCache, since>>

\* a deletion that leaves the quota cache alone
AfterDelete_NoInvalidate(userId) == quotaCache

\* deleteSound step 4 / deleteAnySound: invalidateQuotaCache of the owner
AfterDelete(userId) == invalidateQuotaCache(userId)

\* deleteSound steps 3-4 / deleteAnySound and the route: prisma.sound.delete (it
\* throws when the row is gone or the database fails), invalidateQuotaCache;
\* DELETE /sounds/:id then calls notify, DELETE /admin/sounds/:id does not
DeleteRow(r, ok) ==
    LET rec == reqs[r]
    IN /\ rec.kind \in {"delete", "adminDelete"}
       /\ rec.pc = "row"
       /\ IF ok /\ FindSound(rec.arg) # NoRow
          THEN /\ sounds' = DeleteRowOf(rec.arg)
               /\ quotaCache' = AfterDelete(rec.row.userId)
               /\ since' = Mutated(rec.row.userId)
               /\ IF rec.kind = "delete"
                  THEN Succeed(r, rec, "200")
                  ELSE /\ HttpStep(r, [Done(rec, "200") EXCEPT !.committed = TRUE,
                                                               !.result = "success"])
                       /\ pending' = pending
          ELSE /\ HttpStep(r, Throw(rec))
               /\ UNCHANGED <<sounds, pending, quotaCache, since>>
       /\ UNCHANGED <<users, files, settingsCache>>

\* deleteUserWithSounds up to prisma.user.delete: findUnique with the sounds of
\* the user, then fs.unlink of the file of each of them
DeleteUserFind(r) ==
    LET rec == reqs[r]
        owner == SteamIdOfUser(rec.arg)
        gone == {<<owner, sounds[i].filename>> :
                    i \in {j \in 1..Len(sounds) : sounds[j].userId = rec.arg}}
    IN /\ rec.kind = "deleteUser"
       /\ rec.pc = "find"
       /\ IF owner = None
          THEN HttpStep(r, Fail(rec, "NOT_FOUND", "400")) /\ files' = files
          ELSE /\ HttpStep(r, [rec EXCEPT !.pc = "row"])
               /\ files' = files \ gone
       /\ UNCHANGED <<users, sounds, pending, quotaCache, settingsCache, since>>

\* deleteUserWithSounds: prisma.user.delete, which deletes the sounds of the
\* user with it, then invalidateQuotaCache
DeleteUserRow(r, ok) ==
    LET rec == reqs[r]
        owner == SteamIdOfUser(rec.arg)
    IN /\ rec.kind = "deleteUser"
       /\ rec.pc = "row"
       /\ IF ok /\ owner # None
          THEN /\ users' = [s \in DOMAIN users \ {owner} |-> users[s]]
               /\ sounds' = DeleteRowsOfUser(rec.arg)
               /\ quotaCache' = invalidateQuotaCache(rec.arg)
               /\ since' = Mutated(rec.arg)
               /\ HttpStep(r, [Done(rec, "200") EXCEPT !.committed = TRUE,
                                                       !.result = "success"])
          ELSE /\ HttpStep(r, Throw(rec))
               /\ UNCHANGED <<users, sounds, quotaCache, since>>
       /\ UNCHANGED <<files, pending, settingsCache>>

\* updateUserBanned from the result of findUnique
BanFind(r) ==
    LET rec == reqs[r]
    IN /\ rec.kind \in {"ban", "unban"}
       /\ rec.pc = "find"
       /\ IF SteamIdOfUser(rec.arg) = None
          THEN HttpStep(r, Fail(rec, "NOT_FOUND", "400"))
          ELSE HttpStep(r, [rec EXCEPT !.pc = "row"])
       /\ UNCHANGED <<users, sounds, files, pending, quotaCache, settingsCache, since>>

\* updateUserBanned: prisma.user.update({ data: { isBanned } }), then the answer;
\* it touches neither the registry nor any socket
BanUpdate(r, ok) ==
    LET rec == reqs[r]
        owner == SteamIdOfUser(rec.arg)
    IN /\ rec.kind \in {"ban", "unban"}
       /\ rec.pc = "row"
       /\ IF ok /\ owner # None
          THEN /\ users' = [users EXCEPT ![owner].isBanned = (rec.kind = "ban")]
               /\ HttpStep(r, [Done(rec, "200") EXCEPT !.committed = TRUE,
                                                       !.result = "success"])
          ELSE /\ HttpStep(r, Throw(rec))
               /\ users' = users
       /\ UNCHANGED <<sounds, files, pending, quotaCache, settingsCache, since>>

\* GET /sounds: getUserSounds returned (findMany and count of the page), then
\* getUserSoundCount up to its first await, getCachedQuotaCount
ListSounds(r, ok) ==
    LET rec == reqs[r]
    IN /\ rec.kind = "list"
       /\ rec.pc = "find"
       /\ IF ok THEN HttpStep(r, [rec EXCEPT !.pc = "cached"]) ELSE HttpStep(r, Throw(rec))
       /\ UNCHANGED <<users, sounds, files, pending, quotaCache, settingsCache, since>>

\* getUserSoundCount from the answer of the cache: a hit is totalCount, a miss
\* goes on to prisma.sound.count
ListCached(r) ==
    LET rec == reqs[r]
        cached == getCachedQuotaCount(UserId(rec))
    IN /\ rec.kind = "list"
       /\ rec.pc = "cached"
       /\ IF cached.hit
          THEN HttpStep(r, [Done(rec, "200") EXCEPT !.count = cached.count])
          ELSE HttpStep(r, [rec EXCEPT !.pc = "count"])
       /\ UNCHANGED <<users, sounds, files, pending, quotaCache, settingsCache, since>>

\* getUserSoundCount: prisma.sound.count, inside the try block of the route
ListCount(r, ok) ==
    LET rec == reqs[r]
    IN /\ rec.kind = "list"
       /\ rec.pc = "count"
       /\ IF ok
          THEN HttpStep(r, [rec EXCEPT !.pc = "cacheset", !.count = CountSounds(UserId(rec))])
          ELSE HttpStep(r, Throw(rec))
       /\ UNCHANGED <<users, sounds, files, pending, quotaCache, settingsCache, since>>

\* getUserSoundCount: setCachedQuotaCount of the count it read, then res.json
ListCacheSet(r) ==
    LET rec == reqs[r]
    IN /\ rec.kind = "list"
       /\ rec.pc = "cacheset"
       /\ quotaCache' = setCachedQuotaCount(UserId(rec), rec.count)
       /\ HttpStep(r, Done(rec, "200"))
       /\ UNCHANGED <<users, sounds, files, pending, settingsCache, since>>

\* prisma.user.findUnique of notifyPlayerSoundsUpdated is executed by the store
\* at some moment of the await: the handler resumes later with the row and the
\* sounds that the store held at that moment
NotifyRead(p) ==
    /\ p.kind = "notify"
    /\ p.idx = 0
    /\ BagIn(p, pending)
    /\ LET user == FindUser(p.arg)
           read == IF user = NoUser THEN [p EXCEPT !.idx = 1]
                   ELSE [p EXCEPT !.idx = 1, !.uid = user.id, !.list = SoundsOfUser(user.id)]
       IN pending' = Resume(p) (+) SetToBag({read})
    /\ last' = Last("prisma.user.findUnique", p.conn, p.arg, "read", None, <<>>)
    /\ UNCHANGED <<variant, dbVars, cacheVars, reqs, connectedPlayers, status, socketData,
                   authTimeout, elapsed, authLog, nOther, clientClosed, authErrors>>

\* a notify that looks the socket up again when its lookup has returned
NotifyEmit_Relookup(p) ==
    IF p.uid = None \/ connectedPlayers[p.arg] = None THEN <<>>
    ELSE <<Out(connectedPlayers[p.arg], "sounds_updated", Tag(p.arg), None, None, p.list)>>

\* lines 291-299 / 611-620: nothing when the user is gone, otherwise
\* sounds_updated with the sounds of the row on the socket that notify got
\* from the registry before the await
NotifyEmit(p) ==
    IF p.uid = None THEN <<>>
    ELSE <<Out(p.conn, "sounds_updated", Tag(p.arg), None, None, p.list)>>

\* notifyPlayerSoundsUpdated resumes with the result of findUnique
NotifyResume(p) ==
    /\ p.kind = "notify"
    /\ p.idx = 1
    /\ BagIn(p, pending)
    /\ Effect(World, NotifyEmit(p),
              Last("notifyPlayerSoundsUpdated", p.conn, p.arg, "ok", None, NotifyEmit(p)))
    /\ pending' = Resume(p)
    /\ UNCHANGED <<variant, dbVars, cacheVars, reqs, socketData, elapsed, authLog, nOther, clientClosed>>

\* findUnique rejects: .catch(console.error) of the route logs it
NotifyThrow(p) ==
    /\ p.kind = "notify"
    /\ p.idx = 0
    /\ BagIn(p, pending)
    /\ Effect(World, <<>>, Last("notifyPlayerSoundsUpdated", p.conn, p.arg, "throw", None, <<>>))
    /\ pending' = Resume(p)
    /\ UNCHANGED <<variant, dbVars, cacheVars, reqs, socketData, elapsed, authLog, nOther, clientClosed>>

\* sockets of u1 and u2 and the requests, interleaved
NextHttp ==
    \/ \E c \in Conns : Connect(c)
    \/ \E c \in Conns : ClientDisconnect(c)
    \/ \E c \in Conns, m \in ReadMessages : m.type = "auth" /\ Receive(c, m)
    \/ \E p \in BagToSet(pending) : AuthResume(p)
    \/ \E r \in 1..MaxHttp, q \in Requests : HttpBegin(r, q)
    \/ \E r \in 1..MaxReq : UploadQuota(r, TRUE)
    \/ \E r \in 1..MaxReq, ok \in BOOLEAN : UploadCount(r, ok)
    \/ \E r \in 1..MaxReq : UploadCacheSet(r)
    \/ \E r \in 1..MaxReq, outcome \in {"ok", "mkdir", "write"} : UploadStage(r, outcome)
    \/ \E r \in 1..MaxReq : UploadValidate(r, TRUE)
    \/ \E r \in 1..MaxReq, outcome \in {"ok", "failed", "partial"} : UploadConvert(r, outcome)
    \/ \E r \in 1..MaxReq, outcome \in {"ok", "stat", "create"} : UploadRecord(r, outcome)
    \/ \E r \in 1..MaxReq : RenameFind(r)
    \/ \E r \in 1..MaxReq, ok \in BOOLEAN : RenameUpdate(r, ok)
    \/ \E r \in 1..MaxReq : DeleteFind(r)
    \/ \E r \in 1..MaxReq, ok \in BOOLEAN : DeleteRow(r, ok)
    \/ \E p \in BagToSet(pending) : NotifyRead(p)
    \/ \E p \in BagToSet(pending) : NotifyResume(p)
    \/ \E p \in BagToSet(pending) : NotifyThrow(p)

SpecHttp == Init /\ [][NextHttp]_vars

(***************************************************************************)
(* The sound library without sockets: uploads and deletions by users and   *)
(* the admin, two at a time, while redis comes and goes.                   *)
(***************************************************************************)
\* redis becomes unreachable, or reachable again
RedisFlip ==
    /\ redisUp' = ~redisUp
    /\ last' = Last("redis", None, None, IF redisUp THEN "down" ELSE "up", None, <<>>)
    /\ UNCHANGED <<variant, dbVars, reqs, connectedPlayers, status, socketData, authTimeout,
                   elapsed, pending, authLog, nOther, clientClosed, authErrors,
                   quotaCache, settingsStore, settingsCache, since, limitVars>>

\* the key quota:count:<userId> holds a string that is not a number
Corrupt(userId) ==
    /\ quotaCache[userId].state # "garbage"
    /\ quotaCache' = [quotaCache EXCEPT ![userId] = GarbageQuota]
    /\ last' = Last("redis", None, userId, "corrupt", None, <<>>)
    /\ UNCHANGED <<variant, dbVars, reqs, connectedPlayers, status, socketData, authTimeout,
                   elapsed, pending, authLog, nOther, clientClosed, authErrors,
                   settingsStore, settingsCache, redisUp, since, limitVars>>

StoreDeletes ==
    {Request("delete", "u1", sid, <<>>, NoFile) : sid \in {"s1", "s3", NoSound}}
    \cup {Request("delete", "u2", "s1", <<>>, NoFile)}
StoreRequests == Uploads \cup StoreDeletes \cup AdminDeletes \cup UserDeletes

NextStore ==
    \/ \E r \in 1..MaxReq, q \in StoreRequests : HttpBegin(r, q)
    \/ \E r \in 1..MaxReq, dbOk \in BOOLEAN : UploadQuota(r, dbOk)
    \/ \E r \in 1..MaxReq, ok \in BOOLEAN : UploadCount(r, ok)
    \/ \E r \in 1..MaxReq : UploadCacheSet(r)
    \/ \E r \in 1..MaxReq, outcome \in {"ok", "mkdir", "write"} : UploadStage(r, outcome)
    \/ \E r \in 1..MaxReq, dbOk \in BOOLEAN : UploadValidate(r, dbOk)
    \/ \E r \in 1..MaxReq, outcome \in {"ok", "failed", "partial"} : UploadConvert(r, outcome)
    \/ \E r \in 1..MaxReq, outcome \in {"ok", "stat", "create"} : UploadRecord(r, outcome)
    \/ \E r \in 1..MaxReq : DeleteFind(r)
    \/ \E r \in 1..MaxReq, ok \in BOOLEAN : DeleteRow(r, ok)
    \/ \E r \in 1..MaxReq : DeleteUserFind(r)
    \/ \E r \in 1..MaxReq, ok \in BOOLEAN : DeleteUserRow(r, ok)
    \/ RedisFlip
    \/ Corrupt("id1")

SpecStore == Init /\ [][NextStore]_vars

(***************************************************************************)
(* One upload, over the names and the buffers a request can carry.         *)
(***************************************************************************)
UploadInputs == {Request("upload", "u1", None, n, f) : n \in Names, f \in Files}

NextUpload ==
    \/ \E r \in 1..MaxHttp, q \in UploadInputs : HttpBegin(r, q)
    \/ \E r \in 1..MaxReq, dbOk \in BOOLEAN : UploadQuota(r, dbOk)
    \/ \E r \in 1..MaxReq, ok \in BOOLEAN : UploadCount(r, ok)
    \/ \E r \in 1..MaxReq : UploadCacheSet(r)
    \/ \E r \in 1..MaxReq, outcome \in {"ok", "mkdir", "write"} : UploadStage(r, outcome)
    \/ \E r \in 1..MaxReq, dbOk \in BOOLEAN : UploadValidate(r, dbOk)
    \/ \E r \in 1..MaxReq, outcome \in {"ok", "failed", "partial"} : UploadConvert(r, outcome)
    \/ \E r \in 1..MaxReq, outcome \in {"ok", "stat", "create"} : UploadRecord(r, outcome)
    \/ RedisFlip

\* the rows of the table Setting when the upload arrives
UploadStores ==
    {StoredSettings,
     ("maxDuration" :> 20) @@ ("allowedFormats" :> {"audio/wav"}),
     ("maxFileSize" :> 10485760)}

InitUpload ==
    /\ InitBase
    /\ settingsStore \in UploadStores
    /\ settingsCache = NoSettingsEntry
    /\ redisUp = TRUE
    /\ limiterBuild = "redis"

SpecUpload == InitUpload /\ [][NextUpload]_vars

(***************************************************************************)
(* The quota cache over time: uploads and deletions of u1 while the clock  *)
(* runs.  An entry written by setEx is gone QuotaTtl ticks later.          *)
(***************************************************************************)
\* an entry one tick later
Aged(entry) ==
    IF entry.state = "absent" THEN entry
    ELSE IF entry.ttl <= 1 THEN NoQuotaEntry
    ELSE [entry EXCEPT !.ttl = @ - 1]

\* one tick of the clock
Tick ==
    /\ \E u \in UserIds : since[u] < QuotaTtl \/ quotaCache[u].state # "absent"
    /\ quotaCache' = [u \in UserIds |-> Aged(quotaCache[u])]
    /\ since' = [u \in UserIds |-> IF since[u] < QuotaTtl THEN since[u] + 1 ELSE since[u]]
    /\ last' = Last("clock", None, None, "tick", None, <<>>)
    /\ UNCHANGED <<variant, dbVars, reqs, connectedPlayers, status, socketData, authTimeout,
                   elapsed, pending, authLog, nOther, clientClosed, authErrors,
                   settingsStore, settingsCache, redisUp, limitVars>>

QuotaRequests ==
    {Request("upload", "u1", None, Clip, f) : f \in {GoodFile, Junk}}
    \cup {Request("delete", "u1", sid, <<>>, NoFile) : sid \in {"s1", "s3"}}

NextQuota ==
    \/ \E r \in 1..MaxReq, q \in QuotaRequests : HttpBegin(r, q)
    \/ \E r \in 1..MaxReq : UploadQuota(r, TRUE)
    \/ \E r \in 1..MaxReq, ok \in BOOLEAN : UploadCount(r, ok)
    \/ \E r \in 1..MaxReq : UploadCacheSet(r)
    \/ \E r \in 1..MaxReq, outcome \in {"ok", "mkdir", "write"} : UploadStage(r, outcome)
    \/ \E r \in 1..MaxReq : UploadValidate(r, TRUE)
    \/ \E r \in 1..MaxReq, outcome \in {"ok", "failed", "partial"} : UploadConvert(r, outcome)
    \/ \E r \in 1..MaxReq, outcome \in {"ok", "stat", "create"} : UploadRecord(r, outcome)
    \/ \E r \in 1..MaxReq : DeleteFind(r)
    \/ \E r \in 1..MaxReq, ok \in BOOLEAN : DeleteRow(r, ok)
    \/ Tick

SpecQuota == Init /\ [][NextQuota]_vars

(***************************************************************************)
(* POST /sounds behind its rate limiter.  The build of part_010 and the    *)
(* build of dist/ keep the counters in redis, the build of                 *)
(* src/middleware/rateLimiter.ts keeps them in the memory of the process.  *)
(***************************************************************************)
\* a middleware that answers 429 when its store fails
LimiterVerdict_FailClosed(entry, failed) ==
    IF failed \/ Exceeds(entry) THEN "RATE_LIMIT_EXCEEDED" ELSE "next"

\* the try/catch of requireUploadRateLimit: next() after consume resolved, next()
\* when it rejected with an Error, 429 RATE_LIMIT_EXCEEDED when it rejected
\* with a RateLimiterRes
LimiterVerdict(entry, failed) ==
    IF failed THEN "next"
    ELSE IF Exceeds(entry) THEN "RATE_LIMIT_EXCEEDED" ELSE "next"

\* getUploadRateLimiter or consume rejects with an Error: only a limiter that
\* keeps its counters in redis can fail
LimiterFails == limiterBuild = "redis" /\ ~redisUp

\* requireUploadRateLimit for a request of identity s, from consume to next()
\* or to the 429: a consume that fails leaves the counter as it was
requireUploadRateLimit(s) ==
    LET entry == IF LimiterFails THEN rateLimits[s] ELSE Consumed(rateLimits[s])
        verdict == LimiterVerdict(entry, LimiterFails)
    IN /\ Len(admitted[s]) < MaxUploads
       /\ rateLimits[s].consumed < MaxUploads
       /\ rateLimits' = [rateLimits EXCEPT ![s] = entry]
       /\ admitted' = IF verdict = "next"
                      THEN [admitted EXCEPT ![s] = Append(@, Admission(LimiterFails))]
                      ELSE admitted
       /\ last' = Last("requireUploadRateLimit", None, s, verdict, None, <<>>)
       /\ UNCHANGED <<variant, dbVars, reqs, connectedPlayers, status, socketData,
                      authTimeout, elapsed, pending, authLog, nOther, clientClosed,
                      authErrors, quotaCache, settingsStore, settingsCache, redisUp,
                      since, limiterBuild>>

\* upload requests of identity s that have entered the route
Entered(s) == {r \in DOMAIN reqs : reqs[r].kind = "upload" /\ reqs[r].user = s}

\* next(): a request that the limiter let through enters the route
UploadEnter(r, q) ==
    /\ q.kind = "upload"
    /\ Cardinality(Entered(q.user)) < Len(admitted[q.user])
    /\ HttpBegin(r, q)

\* the clock of the limiter moves in steps of half a window
HalfWindow == limitDuration \div 2

\* a counter half a window later
Later(entry) ==
    IF entry.ttl <= HalfWindow THEN NoLimit ELSE [entry EXCEPT !.ttl = @ - HalfWindow]

\* a let-through request half a window later
Older(a) ==
    [a EXCEPT !.age = IF @ + HalfWindow > limitDuration THEN limitDuration
                      ELSE @ + HalfWindow]

\* half a window passes
RateTick ==
    /\ \E s \in SteamIds :
          \/ rateLimits[s] # NoLimit
          \/ \E i \in 1..Len(admitted[s]) : admitted[s][i].age < limitDuration
    /\ rateLimits' = [s \in SteamIds |-> Later(rateLimits[s])]
    /\ admitted' = [s \in SteamIds |-> [i \in 1..Len(admitted[s]) |-> Older(admitted[s][i])]]
    /\ last' = Last("clock", None, None, "tick", None, <<>>)
    /\ UNCHANGED <<variant, dbVars, reqs, connectedPlayers, status, socketData,
                   authTimeout, elapsed, pending, authLog, nOther, clientClosed,
                   authErrors, quotaCache, settingsStore, settingsCache, redisUp,
                   since, limiterBuild>>

\* an upload that the route answers at once: its name is made of spaces
RateInputs == {Request("upload", "u1", None, Blank, GoodFile)}

InitRate ==
    /\ InitBase
    /\ settingsStore = StoredSettings
    /\ settingsCache = NoSettingsEntry
    /\ redisUp = TRUE
    /\ limiterBuild \in {"memory", "redis"}

NextRate ==
    \/ requireUploadRateLimit("u1")
    \/ \E r \in 1..MaxHttp, q \in RateInputs : UploadEnter(r, q)
    \/ RateTick
    \/ RedisFlip

SpecRate == InitRate /\ [][NextRate]_vars

(***************************************************************************)
(* The sounds of u1 while redis answers every call and the settings stay   *)
(* as stored: uploads one after the other, with listings and deletions in  *)
(* between and alongside.                                                  *)
(***************************************************************************)
ListRequests ==
    {Request("upload", "u1", None, Clip, GoodFile),
     Request("list", "u1", None, <<>>, NoFile),
     Request("delete", "u1", "s1", <<>>, NoFile)}

\* an upload of the identity is between its first and its last step
Uploading(s) ==
    \E r \in Slots : reqs[r].kind = "upload" /\ reqs[r].user = s /\ reqs[r].pc # "done"

\* a request arrives; an upload arrives only when no upload of its owner runs
SerialBegin(r, q) ==
    /\ q.kind = "upload" => ~Uploading(q.user)
    /\ HttpBegin(r, q)

NextList ==
    \/ \E r \in Slots, q \in ListRequests : SerialBegin(r, q)
    \/ \E r \in Slots : UploadQuota(r, TRUE)
    \/ \E r \in Slots : UploadCount(r, TRUE)
    \/ \E r \in Slots : UploadCacheSet(r)
    \/ \E r \in Slots : UploadStage(r, "ok")
    \/ \E r \in Slots : UploadValidate(r, TRUE)
    \/ \E r \in Slots : UploadConvert(r, "ok")
    \/ \E r \in Slots, outcome \in {"ok", "create"} : UploadRecord(r, outcome)
    \/ \E r \in Slots, ok \in BOOLEAN : ListSounds(r, ok)
    \/ \E r \in Slots : ListCached(r)
    \/ \E r \in Slots, ok \in BOOLEAN : ListCount(r, ok)
    \/ \E r \in Slots : ListCacheSet(r)
    \/ \E r \in Slots : DeleteFind(r)
    \/ \E r \in Slots, ok \in BOOLEAN : DeleteRow(r, ok)

SpecList == Init /\ [][NextList]_vars

(***************************************************************************)
(* The plugin of u1 stays connected while u1 deletes sounds: the store     *)
(* answers every call, no socket closes, and the requests arrive once the  *)
(* socket is registered.                                                   *)
(***************************************************************************)
NotifyRequests == {Request("delete", "u1", sid, <<>>, NoFile) : sid \in {"s1", "s3"}}

\* a request of an identity whose plugin is registered
RegisteredBegin(r, q) ==
    /\ connectedPlayers[q.user] # None
    /\ HttpBegin(r, q)

NextNotify ==
    \/ \E c \in Conns : NAuth = 0 /\ Connect(c)
    \/ \E c \in Conns : NAuth = 0 /\ Receive(c, [type |-> "auth", arg |-> "u1"])
    \/ \E p \in BagToSet(pending) : AuthResume(p)
    \/ \E r \in 1..MaxReq, q \in NotifyRequests : RegisteredBegin(r, q)
    \/ \E r \in 1..MaxReq : DeleteFind(r)
    \/ \E r \in 1..MaxReq : DeleteRow(r, TRUE)
    \/ \E p \in BagToSet(pending) : NotifyRead(p)
    \/ \E p \in BagToSet(pending) : NotifyResume(p)

SpecNotify == Init /\ [][NextNotify]_vars

(***************************************************************************)
(* The admin u2 bans and unbans u1 while plugins authenticate; get_sounds  *)
(* and play_sound arrive on a socket once an identity it holds is banned.  *)
(***************************************************************************)
BanRequests ==
    {Request(kind, "u2", uid, <<>>, NoFile) :
        kind \in {"ban", "unban"}, uid \in {"id1", "id2", NoUserId}}

\* the identities that the socket holds and that are banned now
BannedOn(c) ==
    {s \in DOMAIN users :
        /\ users[s].isBanned
        /\ IF variant = "single"
           THEN socketData[c].authenticated /\ socketData[c].steamId64 = s
           ELSE s \in Keys(socketData[c].authenticatedPlayers)}

\* a message other than auth on a socket that holds a banned identity
AskAfterBan(c, m) ==
    /\ m.type \in {"get_sounds", "play_sound"}
    /\ BannedOn(c) # {}
    /\ Receive(c, m)

NextBan ==
    \/ \E c \in Conns : Connect(c)
    \/ \E c \in Conns, m \in ReadMessages : m.type = "auth" /\ Receive(c, m)
    \/ \E c \in Conns, m \in ReadMessages : AskAfterBan(c, m)
    \/ \E p \in BagToSet(pending) : AuthResume(p)
    \/ \E p \in BagToSet(pending) : GetSoundsResume(p)
    \/ \E p \in BagToSet(pending) : PlaySoundResume(p)
    \/ \E p \in BagToSet(pending), ioError \in BOOLEAN : ReadFileResume(p, ioError)
    \/ \E r \in 1..MaxHttp, q \in BanRequests : HttpBegin(r, q)
    \/ \E r \in 1..MaxReq : BanFind(r)
    \/ \E r \in 1..MaxReq, ok \in BOOLEAN : BanUpdate(r, ok)

SpecBan == Init /\ [][NextBan]_vars

(***************************************************************************)
(* GET and PUT /admin/settings: getSettings and updateSettings, one action *)
(* per await.                                                              *)
(***************************************************************************)
\* bodies of PUT /admin/settings
Partials ==
    {NoPartial,
     ("maxSoundsPerUser" :> 5),
     ("maxSoundsPerUser" :> 0),
     ("maxDuration" :> 20) @@ ("allowedFormats" :> {"audio/ogg"})}

SettingsRequests ==
    {Request("getSettings", "u2", None, <<>>, NoFile)}
    \cup {[Request("putSettings", "u2", None, <<>>, NoFile) EXCEPT !.partial = p] : p \in Partials}

\* what the table Setting and the key settings:all can hold when a request arrives
Stores ==
    {NoPartial, StoredSettings, ("maxSoundsPerUser" :> 0),
     ("maxSoundsPerUser" :> maxSoundsPerUser) @@ ("maxDuration" :> 61)}
CacheEntries ==
    {NoSettingsEntry, GarbageSettings,
     CachedSettings(Merge(DEFAULT_SETTINGS, StoredSettings)),
     CachedSettings([DEFAULT_SETTINGS EXCEPT !.maxSoundsPerUser = 0])}

\* the request has the current settings: GET answers them, updateSettings goes
\* on to merge the partial into them
Resolved(rec, settings) ==
    IF rec.kind = "getSettings"
    THEN [Done(rec, "200") EXCEPT !.settings = settings, !.result = "success"]
    ELSE [rec EXCEPT !.settings = settings, !.pc = "s_write"]

\* the route is entered; PUT answers 400 INVALID_INPUT to a body that
\* partialSettingsSchema rejects, updateSettings would reject it the same way
SettingsBegin(r, q) ==
    /\ r = NextRequest
    /\ reqs[r].pc = "idle"
    /\ IF q.kind = "putSettings" /\ ~partialSettingsSchema(q.partial)
       THEN HttpStep(r, Fail(q, "INVALID_INPUT", "400"))
       ELSE HttpStep(r, [q EXCEPT !.pc = "s_cache"])
    /\ UNCHANGED <<dbVars, pending, quotaCache, settingsCache, since>>

\* getSettings lines 16-29: the cached value is returned when it parses and
\* satisfies the schema; anything else, a redis failure included, falls through
SettingsCacheRead(r) ==
    LET rec == reqs[r]
    IN /\ rec.kind \in {"getSettings", "putSettings"}
       /\ rec.pc = "s_cache"
       /\ IF redisUp /\ settingsCache.state = "value" /\ settingsSchema(settingsCache.value)
          THEN HttpStep(r, Resolved(rec, settingsCache.value))
          ELSE HttpStep(r, [rec EXCEPT !.pc = "s_store"])
       /\ UNCHANGED <<dbVars, pending, quotaCache, settingsCache, since>>

\* getSettings lines 31-54: the rows of the store over the defaults when there
\* are rows and the result satisfies the schema; otherwise, a database failure
\* included, DEFAULT_SETTINGS
SettingsStoreRead(r, dbOk) ==
    LET rec == reqs[r]
        merged == Merge(DEFAULT_SETTINGS, settingsStore)
    IN /\ rec.kind \in {"getSettings", "putSettings"}
       /\ rec.pc = "s_store"
       /\ IF dbOk /\ DOMAIN settingsStore # {} /\ settingsSchema(merged)
          THEN HttpStep(r, [rec EXCEPT !.pc = "s_fill", !.settings = merged])
          ELSE HttpStep(r, Resolved(rec, DEFAULT_SETTINGS))
       /\ UNCHANGED <<dbVars, pending, quotaCache, settingsCache, since>>

\* getSettings line 45: cacheSettings of what it read from the store
SettingsFill(r) ==
    LET rec == reqs[r]
    IN /\ rec.kind \in {"getSettings", "putSettings"}
       /\ rec.pc = "s_fill"
       /\ settingsCache' = cacheSettings(rec.settings)
       /\ HttpStep(r, [Resolved(rec, rec.settings) EXCEPT !.wroteCache = redisUp])
       /\ UNCHANGED <<dbVars, pending, quotaCache, since>>

\* a transaction that replaces the rows of the table by those of the partial
Upserted_Replace(partial) == partial

\* the store after the upserts of one transaction
Upserted(partial) ==
    [k \in DOMAIN settingsStore \cup DOMAIN partial |->
        IF k \in DOMAIN partial THEN partial[k] ELSE settingsStore[k]]

\* updateSettings lines 72-95: the merged settings are validated, then the
\* keys of the partial are upserted in one transaction
SettingsWrite(r, ok) ==
    LET rec == reqs[r]
        updated == Merge(rec.settings, rec.partial)
    IN /\ rec.kind = "putSettings"
       /\ rec.pc = "s_write"
       /\ IF ~settingsSchema(updated)
          THEN ReqStep(r, Fail(rec, "UPDATE_FAILED", "400")) /\ settingsStore' = settingsStore
          ELSE IF ok
          THEN /\ ReqStep(r, [rec EXCEPT !.pc = "s_inval", !.settings = updated,
                                         !.wroteStore = TRUE])
               /\ settingsStore' = Upserted(rec.partial)
          ELSE ReqStep(r, Fail(rec, "UPDATE_FAILED", "400")) /\ settingsStore' = settingsStore
       /\ UNCHANGED <<dbVars, pending, quotaCache, settingsCache, redisUp, since>>

\* updateSettings line 97: invalidateSettingsCache
SettingsInvalidate(r) ==
    LET rec == reqs[r]
    IN /\ rec.kind = "putSettings"
       /\ rec.pc = "s_inval"
       /\ settingsCache' = invalidateSettingsCache(settingsCache)
       /\ HttpStep(r, [rec EXCEPT !.pc = "s_recache", !.wroteCache = @ \/ redisUp])
       /\ UNCHANGED <<dbVars, pending, quotaCache, since>>

\* updateSettings lines 100-105 and the route: cacheSettings of the merged
\* settings, which are returned
SettingsRecache(r) ==
    LET rec == reqs[r]
    IN /\ rec.kind = "putSettings"
       /\ rec.pc = "s_recache"
       /\ settingsCache' = cacheSettings(rec.settings)
       /\ HttpStep(r, [Done(rec, "200") EXCEPT !.result = "success", !.committed = TRUE,
                                               !.wroteCache = @ \/ redisUp])
       /\ UNCHANGED <<dbVars, pending, quotaCache, since>>

\* the settings service alone, from every state of the store and the cache
InitSettings ==
    /\ InitBase
    /\ settingsStore \in Stores
    /\ settingsCache \in CacheEntries
    /\ redisUp \in BOOLEAN
    /\ limiterBuild = "redis"

NextSettings ==
    \/ \E r \in 1..MaxReq, q \in SettingsRequests : SettingsBegin(r, q)
    \/ \E r \in 1..MaxReq : SettingsCacheRead(r)
    \/ \E r \in 1..MaxReq, dbOk \in BOOLEAN : SettingsStoreRead(r, dbOk)
    \/ \E r \in 1..MaxReq : SettingsFill(r)
    \/ \E r \in 1..MaxReq, ok \in BOOLEAN : SettingsWrite(r, ok)
    \/ \E r \in 1..MaxReq : SettingsInvalidate(r)
    \/ \E r \in 1..MaxReq : SettingsRecache(r)
    \/ RedisFlip

SpecSettings == InitSettings /\ [][NextSettings]_vars

(***************************************************************************)
(* Protocol state of a socket, as the specification names it               *)
(***************************************************************************)
Open(c) == status[c] = "open"

\* the socketData sd holds steamId64 as an authenticated identity
HoldsIn(sd, steamId64) ==
    IF variant = "single"
    THEN sd.authenticated /\ sd.steamId64 = steamId64
    ELSE steamId64 \in Keys(sd.authenticatedPlayers)

Holds(c, steamId64) == HoldsIn(socketData[c], steamId64)

State(c) ==
    CASE status[c] = "idle" -> "NONE"
      [] status[c] = "closed" -> "CLOSED"
      [] OTHER -> IF \E s \in SteamIds : Holds(c, s) THEN "AUTHENTICATED"
                  ELSE "UNAUTHENTICATED"

\* the one auth message socket c ever received was for steamId64, its handler
\* ran to the end with the user found and not banned, and the client stayed
Raced(c, steamId64) ==
    /\ Len(authLog[c]) = 1
    /\ authLog[c][1].steamId64 = steamId64
    /\ authLog[c][1].res = "ok"
    /\ ~clientClosed[c]

AskedFor(c, steamId64) ==
    \E i \in 1..Len(authLog[c]) : authLog[c][i].steamId64 = steamId64

\* the socket that won and the socket that lost the race for steamId64
Settled(w, l, steamId64) ==
    /\ State(w) = "AUTHENTICATED"
    /\ Holds(w, steamId64)
    /\ connectedPlayers[steamId64] = w
    /\ status[l] = "closed"
    /\ Displaced \in authErrors[l]

\* C1: when two sockets each send one auth message for the same existing,
\* non-banned identity (and no third socket asks for it), then once both
\* handlers have finished, in whatever order the lookups returned, exactly one
\* of the two is AUTHENTICATED and is the registry entry of the identity; the
\* other got the displacement auth_error and is closed.
C1_AuthRaceHasOneWinner ==
    \A a, b \in Conns, s \in SteamIds :
        ( /\ a # b
          /\ Raced(a, s)
          /\ Raced(b, s)
          /\ \A d \in Conns \ {a, b} : ~AskedFor(d, s) )
        => \/ Settled(a, b, s)
           \/ Settled(b, a, s)

\* both handlers finished, and the second message arrived while the first
\* lookup was still awaited
C1_Witness ==
    \E a, b \in Conns, s \in SteamIds :
        /\ a # b
        /\ Raced(a, s)
        /\ Raced(b, s)
        /\ authLog[b][1].overlaps
        /\ Settled(a, b, s)

\* C2: for each identity at most one open socket holds it as authenticated.
C2_OneLiveSessionPerIdentity ==
    \A a, b \in Conns, s \in SteamIds :
        (a # b /\ Open(a) /\ Holds(a, s)) => ~(Open(b) /\ Holds(b, s))

\* an identity held by an open socket after the socket that held it was closed
C2_Witness ==
    \E a, b \in Conns, s \in SteamIds :
        /\ a # b
        /\ Open(a) /\ Holds(a, s)
        /\ status[b] = "closed" /\ Holds(b, s)
        /\ Displaced \in authErrors[b]

\* the sockets whose disconnect this step processes
Closing(c) == status[c] = "open" /\ status'[c] = "closed"

\* C3: a step that processes the disconnect of a socket leaves every registry
\* entry that points at another socket as it is, and an entry is removed only
\* by the step that processes the disconnect of the socket it points at (so a
\* socket whose disconnect was already processed removes nothing).
C3_UnregisterIfCurrent ==
    [][ /\ \A c \in Conns, s \in SteamIds :
              (Closing(c) /\ connectedPlayers[s] \notin {None, c})
              => connectedPlayers'[s] = connectedPlayers[s]
        /\ \A s \in SteamIds :
              (connectedPlayers[s] # None /\ connectedPlayers'[s] = None)
              => Closing(connectedPlayers[s]) ]_vars

\* the disconnect of a displaced socket was processed, and the registration of
\* the socket that displaced it stands
C3_Witness ==
    /\ last.op = "handleAuth"
    /\ last.existing \notin {None, last.conn}
    /\ status[last.existing] = "closed"
    /\ Holds(last.existing, last.arg)
    /\ Open(last.conn)
    /\ connectedPlayers[last.arg] = last.conn

\* C4: every registry entry points at a socket that is still open.
C4_RegistryPointsAtOpen ==
    \A s \in SteamIds : connectedPlayers[s] # None => Open(connectedPlayers[s])

\* C5: once a socket is closed it stays closed, its socketData does not change
\* and no step inserts it into the registry.
C5_ClosedIsTerminal ==
    [][ \A c \in Conns :
            status[c] = "closed"
            => /\ status'[c] = "closed"
               /\ socketData'[c] = socketData[c]
               /\ \A s \in SteamIds :
                     connectedPlayers'[s] = c => connectedPlayers[s] = c ]_vars

\* this step resumes the handleAuth p with the row of its user
Resumes(p) ==
    /\ p.kind = "auth"
    /\ BagIn(p, pending)
    /\ pending' = Resume(p)
    /\ last'.op = "handleAuth"
    /\ last'.conn = p.conn
    /\ last'.arg = p.arg
    /\ last'.res # "throw"

Allowed(steamId64) == FindUser(steamId64) # NoUser /\ ~FindUser(steamId64).isBanned

\* C6: when handleAuth succeeds for an identity that another socket is
\* registered for, then in that one step (no suspension in between) the other
\* socket is sent the displacement auth_error and is closed, and the registry
\* entry then points at the new socket; the notice precedes the auth_success.
C6_DisplaceThenReplace ==
    [][ \A p \in BagToSet(pending) :
            LET e == connectedPlayers[p.arg]
            IN (Resumes(p) /\ Allowed(p.arg) /\ e \notin {None, p.conn})
               => /\ status'[e] = "closed"
                  /\ connectedPlayers'[p.arg] = p.conn
                  /\ Len(last'.out) = 2
                  /\ last'.out[1] = AuthError(e, Tag(p.arg), Displaced)
                  /\ last'.out[2].type = "auth_success"
                  /\ last'.out[2].to = p.conn ]_vars

\* a socket that was open and held the identity has just been displaced
C6_Witness ==
    /\ last.op = "handleAuth"
    /\ last.res = "ok"
    /\ last.existing \notin {None, last.conn}
    /\ Holds(last.existing, last.arg)
    /\ ~clientClosed[last.existing]
    /\ status[last.existing] = "closed"
    /\ connectedPlayers[last.arg] = last.conn

\* C7: a handleAuth that resumes on an open socket with an existing, non-banned
\* user leaves the socket open, AUTHENTICATED for the identity and registered
\* for it, and emits on it an auth_success with the user's sounds.
C7_AuthSuccessRegisters ==
    [][ \A p \in BagToSet(pending) :
            (Resumes(p) /\ Allowed(p.arg) /\ Open(p.conn))
            => /\ status'[p.conn] = "open"
               /\ HoldsIn(socketData'[p.conn], p.arg)
               /\ connectedPlayers'[p.arg] = p.conn
               /\ last'.out[Len(last'.out)] =
                     Out(p.conn, "auth_success", Tag(p.arg), None, None,
                         SoundsOfUser(FindUser(p.arg).id)) ]_vars

\* what every failed handleAuth does in both builds: it answers auth_error on
\* the socket, adds no registry entry for the socket and changes no entry that
\* points at another socket
FailsQuietly(p) ==
    /\ Len(last'.out) = 1
    /\ last'.out[1].type = "auth_error"
    /\ last'.out[1].to = p.conn
    /\ last'.out[1].error \in {"User not found. Please login via web panel first.",
                               "Your account is banned"}
    /\ socketData' = socketData
    /\ \A s \in SteamIds :
          /\ connectedPlayers'[s] = p.conn => connectedPlayers[s] = p.conn
          /\ connectedPlayers[s] \notin {None, p.conn}
             => connectedPlayers'[s] = connectedPlayers[s]

C10_TimerArmedUntilSuccess ==
    variant = "single"
    => \A c \in Conns :
          (Open(c) /\ \A i \in 1..Len(authLog[c]) : authLog[c][i].res # "ok")
          => authTimeout[c]

(***************************************************************************)
(* Scheduling: a timer that is armed expires, and an awaited lookup        *)
(* returns or rejects.  Nothing obliges a client to send or to leave.      *)
(***************************************************************************)
SpecAuthFair ==
    /\ SpecAuth
    /\ WF_vars(\E c \in Conns : TimerExpire(c))
    /\ WF_vars(\E p \in BagToSet(pending) : AuthResume(p) \/ AuthThrow(p))

\* C11: every socket that is open is eventually closed or AUTHENTICATED: a socket
\* that never authenticates does not stay open for ever.
C11_UnauthenticatedIsClosed ==
    \A c \in Conns : Open(c) ~> (status[c] = "closed" \/ State(c) = "AUTHENTICATED")

(***************************************************************************)
(* Requests for sounds                                                     *)
(***************************************************************************)
\* an auth for steamId64 has succeeded on socket c
Authenticated(c, steamId64) ==
    \E i \in 1..Len(authLog[c]) :
        authLog[c][i].steamId64 = steamId64 /\ authLog[c][i].res = "ok"

\* this step receives a message other than auth on socket c
Asks(c) == nOther' = nOther + 1 /\ last'.conn = c

\* this step resumes the handler p of the given kind with the result of its await
Continues(p, kind, op) ==
    /\ p.kind = kind
    /\ BagIn(p, pending)
    /\ CopiesIn(p, pending') < CopiesIn(p, pending)
    /\ last'.op = op
    /\ last'.conn = p.conn
    /\ last'.res # "throw"

\* the owner of the sound row
OwnerOf(row) == SteamIdOfUser(row.userId)

\* C12: a get_sounds or play_sound received on a socket that is not
\* AUTHENTICATED is answered at once with one auth_error on that socket; the
\* handler ends there (so no sounds_list and no sound_data follow), the socket
\* stays open and its socketData and the registry are unchanged.
C12_UnauthenticatedRequest ==
    [][ \A c \in Conns :
            ( /\ Asks(c)
              /\ State(c) = "UNAUTHENTICATED"
              /\ last'.res \notin {"malformed", "unknown"} )
            => /\ Len(last'.out) = 1
               /\ last'.out[1].type = "auth_error"
               /\ last'.out[1].to = c
               /\ pending' = pending
               /\ status' = status
               /\ socketData' = socketData
               /\ connectedPlayers' = connectedPlayers ]_vars

\* C13: (a) every sound_data carries the file of the sound it names, and the
\* owner of that sound is an identity that has authenticated on the socket it
\* is emitted on; (b) when the query of a play_sound returns and the sound is
\* absent or owned by an identity that has not authenticated on the socket,
\* the handler answers one sound_error for that soundId and ends.
C13_NoForeignBytes ==
    [][ /\ \A i \in 1..Len(last'.out) :
              LET m == last'.out[i]
                  row == FindSound(m.soundId)
              IN m.type = "sound_data"
                 => /\ row # NoRow
                    /\ Authenticated(m.to, OwnerOf(row))
                    /\ m.audio = <<OwnerOf(row), row.filename>>
        /\ \A p \in BagToSet(pending) :
              LET row == FindSound(p.arg)
              IN ( /\ Continues(p, "play_sound", "handlePlaySound")
                   /\ \/ row = NoRow
                      \/ ~Authenticated(p.conn, OwnerOf(row)) )
                 => /\ Len(last'.out) = 1
                    /\ last'.out[1].type = "sound_error"
                    /\ last'.out[1].to = p.conn
                    /\ last'.out[1].soundId = p.arg
                    /\ pending' = Resume(p) ]_vars

\* an AUTHENTICATED socket asked for another owner's sound and got sound_error
C13_Witness ==
    /\ last.op = "handlePlaySound"
    /\ last.res \in {"notfound", "unauth"}
    /\ FindSound(last.arg) # NoRow
    /\ State(last.conn) = "AUTHENTICATED"
    /\ ~Authenticated(last.conn, OwnerOf(FindSound(last.arg)))
    /\ last.out[1].type = "sound_error"

\* the reply to a play_sound for a soundId that does not exist
NotFoundReply(c, soundId) == <<SoundError(c, Tag(""), soundId, "Sound not found")>>

\* C14: on an AUTHENTICATED socket, when the query of a play_sound returns and
\* the sound does not exist, or exists but belongs to an identity that has not
\* authenticated on the socket, the reply is the same: sound_error with the
\* soundId and "Sound not found".
C14_ForeignLooksAbsent ==
    [][ \A p \in BagToSet(pending) :
            LET row == FindSound(p.arg)
            IN ( /\ Continues(p, "play_sound", "handlePlaySound")
                 /\ State(p.conn) = "AUTHENTICATED"
                 /\ row # NoRow => ~Authenticated(p.conn, OwnerOf(row)) )
               => last'.out = NotFoundReply(p.conn, p.arg) ]_vars

\* this step ends the play_sound handler p on a file that cannot be read
ReadFails(p) ==
    \/ /\ Continues(p, "read_file", "handlePlaySound")
       /\ p.path \notin files \/ last'.res = "readfail"
    \/ /\ Continues(p, "play_sound", "handlePlaySound")
       /\ last'.res = "missing"

\* C15: when play_sound has found the record of a sound of an identity of the
\* socket and the file is missing or cannot be read, the handler answers one
\* sound_error for that soundId (no sound_data) and ends; the socket's
\* connection, its socketData and the registry are left as they were.
C15_ReadFailureIsReported ==
    [][ \A p \in BagToSet(pending) :
            ReadFails(p)
            => /\ Len(last'.out) = 1
               /\ last'.out[1].type = "sound_error"
               /\ last'.out[1].to = p.conn
               /\ last'.out[1].soundId = p.arg
               /\ pending' = Resume(p)
               /\ status' = status
               /\ socketData' = socketData
               /\ connectedPlayers' = connectedPlayers ]_vars

\* the file of a sound of the socket's identity could not be read, and the
\* socket is still open, AUTHENTICATED and registered
C15_Witness ==
    /\ last.op = "handlePlaySound"
    /\ last.res \in {"readfail", "missing"}
    /\ FindSound(last.arg) # NoRow
    /\ Open(last.conn)
    /\ Holds(last.conn, OwnerOf(FindSound(last.arg)))
    /\ connectedPlayers[OwnerOf(FindSound(last.arg))] = last.conn
    /\ last.out[1].type = "sound_error"

\* C16: a message that is not an object, or whose type is missing or not a
\* string, is answered with one generic error on the socket; the socket's
\* connection, socketData and timer, the registry and the suspended handlers
\* are left as they were.
C16_MalformedChangesNothing ==
    [][ \A c \in Conns :
            (Asks(c) /\ last'.arg = NoType)
            => /\ last'.out = <<ErrorMsg(c, "Invalid message format")>>
               /\ status' = status
               /\ socketData' = socketData
               /\ authTimeout' = authTimeout
               /\ connectedPlayers' = connectedPlayers
               /\ pending' = pending ]_vars

\* a malformed message was answered on an AUTHENTICATED socket
C16_Witness ==
    /\ last.op = "message"
    /\ last.arg = NoType
    /\ last.res = "malformed"
    /\ State(last.conn) = "AUTHENTICATED"
    /\ last.out[1].type = "error"

\* list is the rows of the sound table owned by userId, newest first, each
\* projected on id, name and duration
IsDescListOf(list, userId) ==
    LET own == {i \in 1..Len(sounds) : sounds[i].userId = userId}
    IN /\ Len(list) = Cardinality(own)
       /\ \A k \in 1..Len(list) :
             \E i \in own :
                /\ Cardinality({j \in own : j > i}) = k - 1
                /\ list[k] = [id |-> sounds[i].id, name |-> sounds[i].name,
                              duration |-> sounds[i].duration]

\* C17: when the query of a get_sounds returns, the handler emits on the socket
\* one sounds_list holding exactly the rows of the sound table owned by an
\* identity that has authenticated on the socket (in the multi-identity build
\* the message names that identity), newest first, as id, name and duration.
C17_SoundsListIsExact ==
    [][ \A p \in BagToSet(pending) :
            Continues(p, "get_sounds", "handleGetSounds")
            => /\ Len(last'.out) = 1
               /\ last'.out[1].type = "sounds_list"
               /\ last'.out[1].to = p.conn
               /\ \E s \in SteamIds :
                     /\ Authenticated(p.conn, s)
                     /\ IsDescListOf(last'.out[1].sounds, users[s].id)
                     /\ variant = "multi" => last'.out[1].steamId64 = s ]_vars

\* a sounds_list with the two sounds of the identity, the newer one first
C17_Witness ==
    /\ last.op = "handleGetSounds"
    /\ Len(last.out) = 1
    /\ last.out[1].type = "sounds_list"
    /\ Len(last.out[1].sounds) = 2
    /\ last.out[1].sounds[1].id = "s3"
    /\ Open(last.conn)

(***************************************************************************)
(* Mutations of sounds and their notification                              *)
(***************************************************************************)
\* this step calls notifyPlayerSoundsUpdated for the user of request r
Notifies(r) == ~reqs[r].notified /\ reqs'[r].notified

\* C18: (a) a call of notify for an identity emits nothing by itself; without a
\* registry entry for the identity it ends there, with an entry it suspends one
\* lookup for the socket of that entry; (b) the lookup reads the rows of the
\* sound table owned by the identity, newest first, and emits nothing; (c) when
\* the lookup returns, notify emits one sounds_updated, on that socket and no
\* other, carrying the rows that the lookup read.
C18_NotifyFollowsRegistry ==
    [][ /\ \A r \in 1..MaxReq :
              Notifies(r)
              => LET s == reqs'[r].user
                     e == connectedPlayers[s]
                 IN /\ last'.out = <<>>
                    /\ e = None => pending' = pending
                    /\ e # None
                       => \E p \in BagToSet(pending') :
                             /\ p.kind = "notify"
                             /\ p.conn = e
                             /\ p.arg = s
                             /\ pending' = pending (+) SetToBag({p})
        /\ \A p \in BagToSet(pending) :
              Continues(p, "notify", "prisma.user.findUnique")
              => /\ last'.out = <<>>
                 /\ \E q \in BagToSet(pending') :
                       /\ q = [p EXCEPT !.idx = 1, !.uid = users[p.arg].id, !.list = q.list]
                       /\ IsDescListOf(q.list, users[p.arg].id)
                       /\ pending' = Resume(p) (+) SetToBag({q})
        /\ \A p \in BagToSet(pending) :
              Continues(p, "notify", "notifyPlayerSoundsUpdated")
              => /\ Len(last'.out) = 1
                 /\ last'.out[1].type = "sounds_updated"
                 /\ last'.out[1].to = p.conn
                 /\ last'.out[1].sounds = p.list
                 /\ variant = "multi" => last'.out[1].steamId64 = p.arg
                 /\ pending' = Resume(p) ]_vars

\* after a committed mutation the socket registered for the owner was sent the
\* new list, while another socket, authenticated for another identity, is open
C18_Witness ==
    /\ last.op = "notifyPlayerSoundsUpdated"
    /\ Len(last.out) = 1
    /\ last.out[1].type = "sounds_updated"
    /\ Len(last.out[1].sounds) # 2
    /\ Open(last.conn)
    /\ connectedPlayers[last.arg] = last.conn
    /\ \E r \in 1..MaxReq : reqs[r].committed /\ reqs[r].notified /\ reqs[r].user = last.arg
    /\ \E d \in Conns \ {last.conn} : Open(d) /\ State(d) = "AUTHENTICATED"

\* C19: a request calls notify only once its mutation is committed; a request
\* that has answered and committed a create, a rename or a delete has called
\* notify; and a step of notify (its lookup returning or failing) changes
\* neither the sound table, the files nor any request's response.
C19_MutationThenNotify ==
    [][ /\ \A r \in 1..MaxReq :
              /\ reqs'[r].notified => reqs'[r].committed
              /\ (reqs'[r].pc = "done" /\ reqs'[r].committed) => reqs'[r].notified
        /\ \A p \in BagToSet(pending) :
              ( /\ p.kind = "notify"
                /\ CopiesIn(p, pending') < CopiesIn(p, pending)
                /\ last'.op = "notifyPlayerSoundsUpdated" )
              => UNCHANGED <<sounds, files, reqs>> ]_vars

\* C20: once an upload that wrote its staging file has answered with a failure,
\* neither its temporary file nor its output file is in the owner's directory.
C20_FailedUploadLeavesNoFile ==
    \A r \in 1..MaxReq :
        ( /\ reqs[r].kind = "upload"
          /\ reqs[r].pc = "done"
          /\ reqs[r].staged
          /\ reqs[r].response # "201" )
        => /\ <<reqs[r].user, TempNames[r]>> \notin files
           /\ <<reqs[r].user, FinalNames[r]>> \notin files

(***************************************************************************)
(* The sound library, as the specification names it                        *)
(***************************************************************************)
\* no upload and no deletion is between its first and its last step
Quiet == \A r \in 1..MaxReq : reqs[r].pc \in {"idle", "done"}

\* the file of s3 was lost before the server started
LostBefore == {"s3"}

\* every record has its file in the directory of its owner
RecordsHaveFiles ==
    \A i \in 1..Len(sounds) :
        sounds[i].id \notin LostBefore
        => <<SteamIdOfUser(sounds[i].userId), sounds[i].filename>> \in files

\* every file in a directory is the file of a record of the owner
FilesHaveRecords ==
    \A f \in files :
        \E i \in 1..Len(sounds) :
            /\ SteamIdOfUser(sounds[i].userId) = f[1]
            /\ sounds[i].filename = f[2]

\* C21: whenever no upload and no deletion is in progress, a sound record
\* exists exactly when its file exists in the directory of its owner, after any
\* run of uploads and deletions by users and the admin, failures included.
C21_RecordIffFile == Quiet => (RecordsHaveFiles /\ FilesHaveRecords)

\* the error codes of createSound
UploadCodes ==
    {"NAME_TOO_SHORT", "NAME_TOO_LONG", "QUOTA_EXCEEDED", "FILE_TOO_LARGE",
     "INVALID_FILE_TYPE", "INVALID_AUDIO_FORMAT", "INVALID_AUDIO", "DURATION_TOO_LONG",
     "INTERNAL_ERROR"}

\* request r is an upload whose call of createSound is over
Submitted(r) ==
    /\ reqs[r].kind = "upload"
    /\ reqs[r].pc = "done"
    /\ reqs[r].name # Empty

\* the record that the upload r created, if it is still there
RecordOf(r) == FindSound(NewIds[r])

\* C22: createSound always returns success or an error whose code is one of
\* the nine codes; it returns success exactly when it created a record.
C22_UploadReturnsTagged ==
    \A r \in 1..MaxReq :
        Submitted(r)
        => /\ reqs[r].result \in UploadCodes \cup {"success"}
           /\ reqs[r].result = "success" <=> reqs[r].committed

\* the positions of the characters of name that are not white space
Inked(name) == {i \in 1..Len(name) : name[i] # Space}

Least(S) == CHOOSE i \in S : \A j \in S : i <= j
Greatest(S) == CHOOSE i \in S : \A j \in S : i >= j

\* the length of what is left of name without its leading and trailing white space
TrimmedLength(name) ==
    IF Inked(name) = {} THEN 0 ELSE Greatest(Inked(name)) - Least(Inked(name)) + 1

\* createSound is called for request r with this step
Submits(r) == reqs[r].pc = "idle" /\ reqs'[r].kind = "upload" /\ reqs'[r].name # Empty

\* C23: createSound with a name of trimmed length 0 returns NAME_TOO_SHORT,
\* with a name of trimmed length above 32 NAME_TOO_LONG, and with a name of
\* trimmed length 1 to 32 it goes on to the quota check; the step that rejects
\* a name writes no file, no record and no cache entry and resolves no settings.
C23_NameGate ==
    [][ \A r \in 1..MaxReq :
            Submits(r)
            => LET n == TrimmedLength(reqs'[r].name)
               IN /\ n = 0 => reqs'[r].pc = "done" /\ reqs'[r].result = "NAME_TOO_SHORT"
                  /\ n > 32 => reqs'[r].pc = "done" /\ reqs'[r].result = "NAME_TOO_LONG"
                  /\ (n >= 1 /\ n <= 32) => reqs'[r].pc = "quota" /\ reqs'[r].result = None
                  /\ reqs'[r].pc = "done"
                     => /\ UNCHANGED <<sounds, files, quotaCache, settingsCache>>
                        /\ ~reqs'[r].staged /\ ~reqs'[r].committed
                        /\ reqs'[r].max = 0 ]_vars

\* a name of 32 characters between two spaces went through the whole upload,
\* and its record holds the trimmed name
C23_Witness ==
    \E r \in 1..MaxReq :
        /\ reqs[r].kind = "upload"
        /\ reqs[r].name = Padded
        /\ reqs[r].result = "success"
        /\ RecordOf(r).name = As(32)

\* the values maxSoundsPerUser can have at this moment, by the tier that answers
CurrentMax ==
    {DEFAULT_SETTINGS.maxSoundsPerUser, Merge(DEFAULT_SETTINGS, settingsStore).maxSoundsPerUser}
    \cup (IF settingsCache.state = "value" THEN {settingsCache.value.maxSoundsPerUser} ELSE {})

\* with this step the upload r has its count and decides on the quota
Gates(r) ==
    /\ reqs[r].kind = "upload"
    /\ reqs[r].pc \in {"quota", "cacheset"}
    /\ reqs'[r].pc \in {"stage", "done"}

\* C24: when the count an upload resolved is at least the maxSoundsPerUser it
\* resolved, createSound returns QUOTA_EXCEEDED with no file written and no
\* record created; when the count is below it, the upload goes on to staging.
\* The limit it resolves is a current one.
C24_QuotaGate ==
    [][ \A r \in 1..MaxReq :
            /\ (reqs[r].pc = "quota" /\ reqs'[r].pc # "quota") => reqs'[r].max \in CurrentMax
            /\ Gates(r)
               => LET count == reqs'[r].count
                      max == reqs'[r].max
                  IN /\ (count >= 0 /\ count >= max)
                        => /\ reqs'[r].pc = "done"
                           /\ reqs'[r].result = "QUOTA_EXCEEDED"
                           /\ ~reqs'[r].staged /\ ~reqs'[r].committed
                           /\ UNCHANGED <<sounds, files>>
                     /\ (count >= 0 /\ count < max)
                        => reqs'[r].pc = "stage" /\ reqs'[r].result = None ]_vars

\* u1, who had two sounds, uploaded a third, and the next upload was refused
\* with exactly three sounds counted
C24_Witness ==
    \E r \in 1..MaxReq :
        /\ reqs[r].result = "QUOTA_EXCEEDED"
        /\ reqs[r].count = maxSoundsPerUser
        /\ reqs[r].max = maxSoundsPerUser
        /\ CountSounds("id1") = maxSoundsPerUser
        /\ <<"u1", TempNames[r]>> \notin files

\* the settings getSettings can return at this moment, by the tier that answers
CurrentSettings ==
    {DEFAULT_SETTINGS, Merge(DEFAULT_SETTINGS, settingsStore)}
    \cup (IF settingsCache.state = "value" THEN {settingsCache.value} ELSE {})

\* an allowed type, audio/wave and audio/x-wav being names of audio/wav
TypeAllowed(mime, s) ==
    \/ mime \in s.allowedFormats
    \/ mime \in {"audio/wave", "audio/x-wav"} /\ "audio/wav" \in s.allowedFormats

\* the gates of the content validation in their order, each with whether the
\* file fails it under the settings s
ContentGates(file, s) ==
    << [code |-> "FILE_TOO_LARGE", fails |-> file.size > s.maxFileSize],
       [code |-> "INVALID_FILE_TYPE", fails |-> file.mime = None],
       [code |-> "INVALID_AUDIO_FORMAT", fails |-> ~TypeAllowed(file.mime, s)],
       [code |-> "INVALID_AUDIO", fails |-> ~file.probe],
       [code |-> "DURATION_TOO_LONG", fails |-> file.duration > s.maxDuration] >>

\* the code of the first gate the file fails, None when it passes them all
FirstFailing(file, s) ==
    LET gates == ContentGates(file, s)
        failing == {i \in 1..Len(gates) : gates[i].fails}
    IN IF failing = {} THEN None ELSE gates[Least(failing)].code

\* with this step the content validation of the upload r is over
Validates(r) == reqs[r].kind = "upload" /\ reqs[r].pc = "validate" /\ reqs'[r].pc # "validate"

\* C25: the content validation returns the code of the first gate, in the
\* order size, detectable type, allowed type, readable duration, duration,
\* that the file fails under current settings; after a failure the upload is
\* over with that code, no transcode and no record; a file that passes every
\* gate goes on to the transcode.
C25_ContentGates ==
    [][ \A r \in 1..MaxReq :
            Validates(r)
            => \E s \in CurrentSettings :
                  LET code == FirstFailing(reqs[r].file, s)
                  IN IF code = None
                     THEN reqs'[r].pc = "convert" /\ reqs'[r].result = None
                     ELSE /\ reqs'[r].pc = "done"
                          /\ reqs'[r].result = code
                          /\ ~reqs'[r].committed
                          /\ <<reqs[r].user, FinalNames[r]>> \notin files'
                          /\ sounds' = sounds ]_vars

\* a file that is too long and of a type that is not allowed was refused for
\* its type
C25_Witness ==
    \E r \in 1..MaxReq :
        /\ reqs[r].pc = "done"
        /\ reqs[r].file = File(1000, "image/png", TRUE, 11)
        /\ reqs[r].result = "INVALID_AUDIO_FORMAT"
        /\ reqs[r].staged

\* the key of the user holds the decimal string of a count and redis answers
Readable(userId) == redisUp /\ quotaCache[userId].state = "count"

\* with this step the upload r has the answer of the quota cache
AsksCache(r) == reqs[r].kind = "upload" /\ reqs[r].pc = "quota" /\ reqs'[r].pc # "quota"

\* C26: an upload whose cache read meets a redis error, no entry or an entry
\* that is not a count goes on to the persisted count, and an upload whose
\* cache read finds a count decides on that count; a set or an invalidation
\* that fails leaves the cache as it was and the upload or deletion that made
\* it ends as it would have.
C26_CacheFailuresAreMisses ==
    [][ \A r \in 1..MaxReq :
            /\ AsksCache(r)
               => IF Readable(UserId(reqs[r]))
                  THEN /\ reqs'[r].pc \in {"stage", "done"}
                       /\ reqs'[r].count = quotaCache[UserId(reqs[r])].count
                  ELSE reqs'[r].pc = "count"
            /\ (reqs[r].pc = "count" /\ reqs'[r].pc = "cacheset")
               => reqs'[r].count = CountSounds(UserId(reqs[r]))
            /\ (reqs[r].pc \in {"cacheset", "record", "row"} /\ reqs'[r].pc # reqs[r].pc
                  /\ ~redisUp)
               => quotaCache' = quotaCache ]_vars

\* C27: once a full TTL has passed since the last creation or deletion of a
\* sound of an identity, with its invalidation, a count cached for the
\* identity is the number of its persisted sounds.
C27_StaleWithinOneTtl ==
    \A u \in UserIds :
        (since[u] >= QuotaTtl /\ quotaCache[u].state = "count")
        => quotaCache[u].count = CountSounds(u)

\* the steps of a deletion of one sound by request r: its lookup, its row deletion
LooksUp(r) ==
    /\ reqs[r].kind \in {"delete", "adminDelete"}
    /\ reqs[r].pc = "find"
    /\ reqs'[r].pc # "find"
Removes(r) ==
    /\ reqs[r].kind \in {"delete", "adminDelete"}
    /\ reqs[r].pc = "row"
    /\ reqs'[r].pc = "done"

\* the file of the row is in the directory of its owner
OnDisk(row) == <<SteamIdOfUser(row.userId), row.filename>> \in files

\* C28: a deletion whose lookup finds no record of the id ends there with
\* NOT_FOUND and changes no record, file or cache entry; a deletion whose
\* lookup finds the record of a sound whose file is absent goes on, and when
\* it returns success the record is gone and, redis answering, the quota
\* cache entry of the owner is absent.
C28_DeleteIsIdempotent ==
    [][ \A r \in 1..MaxReq :
            /\ (LooksUp(r) /\ FindSound(reqs[r].arg) = NoRow)
               => /\ reqs'[r].pc = "done"
                  /\ reqs'[r].result = "NOT_FOUND"
                  /\ reqs'[r].response = "404"
                  /\ UNCHANGED <<sounds, files, quotaCache>>
            /\ (LooksUp(r) /\ reqs'[r].row # NoRow /\ ~OnDisk(reqs'[r].row))
               => reqs'[r].pc = "row" /\ UNCHANGED <<sounds, files, quotaCache>>
            /\ (Removes(r) /\ FindSound(reqs[r].arg) # NoRow)
               => \/ reqs'[r].result = "throw" /\ UNCHANGED <<sounds, files, quotaCache>>
                  \/ /\ reqs'[r].result = "success"
                     /\ reqs'[r].response = "200"
                     /\ FindSound(reqs[r].arg)' = NoRow
                     /\ redisUp => quotaCache'[reqs[r].row.userId].state = "absent" ]_vars

\* u1 deleted s3, whose file was absent, while the quota cache held a count
\* for u1: the record is gone, the entry too
C28_Witness ==
    \E r \in 1..MaxReq :
        /\ reqs[r].kind = "delete"
        /\ reqs[r].arg = "s3"
        /\ reqs[r].result = "success"
        /\ FindSound("s3") = NoRow
        /\ last.op = "DELETE /sounds/:id"
        /\ last.arg = "s3"
        /\ quotaCache["id1"].state = "absent"
        /\ \E q \in 1..MaxReq : reqs[q].kind = "upload" /\ reqs[q].pc = "done" /\ reqs[q].count = 2

\* the validated ranges of the settings
InRange(s) ==
    /\ s.maxSoundsPerUser \in 1..100
    /\ s.maxFileSize >= 102400 /\ s.maxFileSize <= 52428800
    /\ s.maxDuration >= 1 /\ s.maxDuration <= 60
    /\ s.cooldownSeconds \in 0..300
    /\ s.allowedFormats # {}

\* the rows of the store, with the default for every key that has no row
StoreOverDefaults ==
    [k \in SettingKeys |->
        IF k \in DOMAIN settingsStore THEN settingsStore[k] ELSE DEFAULT_SETTINGS[k]]

\* request r is reading the settings, at the tier pc, and this step is its own
ReadsAt(r, pc) ==
    /\ reqs[r].kind \in {"getSettings", "putSettings"}
    /\ reqs[r].pc = pc
    /\ reqs'[r].pc # pc

\* the read of request r is over after this step
Answers(r) == reqs'[r].pc \in {"done", "s_write"}

\* C29: a read of the settings answers the cached value when redis answers
\* with a value in the ranges, and goes to the store otherwise; from the store
\* it takes the rows over the defaults when there are rows and the result is
\* in the ranges, and answers the defaults otherwise; whatever the tiers hold
\* or do, the read ends with settings in the validated ranges, and
\* GET /admin/settings with success.
C29_SettingsChain ==
    [][ \A r \in 1..MaxReq :
            /\ ReadsAt(r, "s_cache")
               => IF redisUp /\ settingsCache.state = "value" /\ InRange(settingsCache.value)
                  THEN Answers(r) /\ reqs'[r].settings = settingsCache.value
                  ELSE reqs'[r].pc = "s_store"
            /\ ReadsAt(r, "s_store")
               => /\ reqs'[r].pc = "s_fill"
                     => /\ DOMAIN settingsStore # {}
                        /\ reqs'[r].settings = StoreOverDefaults
                  /\ reqs'[r].pc # "s_fill"
                     => Answers(r) /\ reqs'[r].settings = DEFAULT_SETTINGS
                  /\ (DOMAIN settingsStore = {} \/ ~InRange(StoreOverDefaults))
                     => reqs'[r].pc # "s_fill"
            /\ ReadsAt(r, "s_fill")
               => Answers(r) /\ reqs'[r].settings = reqs[r].settings
            /\ (\E pc \in {"s_cache", "s_store", "s_fill"} : ReadsAt(r, pc)) /\ Answers(r)
               => /\ InRange(reqs'[r].settings)
                  /\ reqs'[r].kind = "getSettings"
                     => reqs'[r].result = "success" /\ reqs'[r].response = "200" ]_vars

\* GET /admin/settings answered the defaults although the cache held settings
\* with maxSoundsPerUser 0 and the store a row with maxSoundsPerUser 0
C29_Witness ==
    \E r \in 1..MaxReq :
        /\ reqs[r].kind = "getSettings"
        /\ reqs[r].pc = "done"
        /\ reqs[r].settings = DEFAULT_SETTINGS
        /\ redisUp
        /\ settingsCache.state = "value"
        /\ settingsCache.value.maxSoundsPerUser = 0
        /\ settingsStore = ("maxSoundsPerUser" :> 0)
        /\ reqs[2].pc = "idle"

\* this step is a step of the update r
Updates(r) == reqs[r].kind = "putSettings" /\ reqs'[r] # reqs[r]

\* the update r has returned an error
Refused(r) ==
    /\ reqs[r].kind = "putSettings"
    /\ reqs[r].pc = "done"
    /\ reqs[r].result # "success"

\* C30 as stated: an update that returned an error has written neither the
\* store nor the settings cache.
C30_RefusedChangesNothing ==
    \A r \in 1..MaxReq : Refused(r) => ~reqs[r].wroteStore /\ ~reqs[r].wroteCache

\* C30, amended: an update writes the store in one step only, after the
\* partial and the settings merged from it and the current settings were
\* found in the ranges, and that step sets every key of the partial and no
\* other; an update that returns an error has not written the store, and the
\* only write to the cache it can have made is the one of its read of the
\* current settings, which caches the settings it read from the store; an
\* update that returns success returns the current settings with the keys of
\* the partial replaced, in the ranges.
C30_UpdateSettings ==
    [][ \A r \in 1..MaxReq :
            Updates(r)
            => /\ settingsStore' # settingsStore
                  => /\ reqs[r].pc = "s_write"
                     /\ DOMAIN settingsStore' = DOMAIN settingsStore \cup DOMAIN reqs[r].partial
                     /\ \A k \in DOMAIN reqs[r].partial : settingsStore'[k] = reqs[r].partial[k]
                     /\ \A k \in DOMAIN settingsStore \ DOMAIN reqs[r].partial :
                           settingsStore'[k] = settingsStore[k]
               /\ (reqs[r].pc = "s_write" /\ reqs'[r].pc = "s_inval")
                  => /\ DOMAIN reqs[r].partial \subseteq DOMAIN settingsStore'
                     /\ \A k \in SettingKeys :
                           reqs'[r].settings[k] = IF k \in DOMAIN reqs[r].partial
                                                  THEN reqs[r].partial[k]
                                                  ELSE reqs[r].settings[k]
                     /\ InRange(reqs'[r].settings)
               /\ (settingsCache' # settingsCache /\ ~reqs[r].wroteStore)
                  => /\ reqs[r].pc = "s_fill"
                     /\ settingsCache' = CachedSettings(reqs[r].settings)
                     /\ InRange(reqs[r].settings)
               /\ (reqs'[r].pc = "done" /\ reqs'[r].result # "success")
                  => /\ ~reqs'[r].wroteStore
                     /\ settingsStore' = settingsStore
                     /\ settingsCache' = settingsCache
               /\ (reqs'[r].pc = "done" /\ reqs'[r].result = "success")
                  => /\ reqs'[r].wroteStore
                     /\ reqs'[r].settings = reqs[r].settings
                     /\ InRange(reqs'[r].settings) ]_vars

\* an update of maxDuration and allowedFormats was refused because the store
\* write failed, after its read of the current settings had filled the cache
C30_Witness ==
    \E r \in 1..MaxReq :
        /\ Refused(r)
        /\ DOMAIN reqs[r].partial = {"maxDuration", "allowedFormats"}
        /\ reqs[r].result = "UPDATE_FAILED"
        /\ reqs[r].wroteCache
        /\ ~reqs[r].wroteStore
        /\ settingsStore = StoredSettings
        /\ settingsCache = CachedSettings(Merge(DEFAULT_SETTINGS, StoredSettings))

(***************************************************************************)
(* The upload rate limiter                                                 *)
(***************************************************************************)
\* the requests of identity s that the limiter let through by its own count
\* during the last limitDuration seconds
InWindow(s) ==
    {i \in 1..Len(admitted[s]) : ~admitted[s][i].open /\ admitted[s][i].age < limitDuration}

\* the same, since the counter of s that is alive now was created
SinceCounter(s) ==
    {i \in 1..Len(admitted[s]) :
        /\ ~admitted[s][i].open
        /\ rateLimits[s].ttl > 0
        /\ admitted[s][i].age <= limitDuration - rateLimits[s].ttl}

\* this step is requireUploadRateLimit for a request of identity s
Limits(s) ==
    /\ last'.op = "requireUploadRateLimit"
    /\ last'.arg = s
    /\ last' # last \/ admitted'[s] # admitted[s] \/ rateLimits'[s] # rateLimits[s]

\* what the limiter does with one request: while its store answers, it rejects
\* exactly the requests that find `points` requests let through since the
\* counter was created, and a rejected request reaches neither the route nor
\* any table, file or cache; while its store fails, it lets the request through
Verdicts(s) ==
    Limits(s)
    => /\ last'.res \in {"next", "RATE_LIMIT_EXCEEDED"}
       /\ ~LimiterFails
          => (last'.res = "RATE_LIMIT_EXCEEDED" <=> Cardinality(SinceCounter(s)) >= points)
       /\ last'.res = "RATE_LIMIT_EXCEEDED"
          => /\ admitted' = admitted
             /\ UNCHANGED <<reqs, dbVars, pending, quotaCache, settingsStore, settingsCache>>
       /\ last'.res = "next"
          => admitted'[s] = Append(admitted[s], Admission(LimiterFails))
       /\ LimiterFails => last'.res = "next" /\ rateLimits' = rateLimits

\* C31 as stated: at most 5 requests of an identity are let through in any 60
\* seconds (requests let through because the store failed aside); further ones
\* are rejected with RATE_LIMIT_EXCEEDED without entering the route; a request
\* that meets a failing store is let through.
C31_AnySixtySeconds ==
    [][ \A s \in SteamIds :
            /\ Cardinality(InWindow(s))' <= points
            /\ Verdicts(s) ]_vars

\* C31, amended: at most 5 requests of an identity are let through during the
\* life of one counter of the limiter, which starts with the first request that
\* finds no counter and lasts 60 seconds; the rest as stated.
C31_PerCounter ==
    [][ \A s \in SteamIds :
            /\ Cardinality(SinceCounter(s))' <= points
            /\ Verdicts(s) ]_vars

\* the sixth request since the counter was created has just been rejected,
\* after an earlier request was let through while redis was down, and a
\* request that was let through has entered the route
C31_Witness ==
    /\ last.op = "requireUploadRateLimit"
    /\ last.res = "RATE_LIMIT_EXCEEDED"
    /\ Cardinality(SinceCounter("u1")) = points
    /\ rateLimits["u1"].consumed = points + 1
    /\ \E i \in 1..Len(admitted["u1"]) : admitted["u1"][i].open
    /\ Entered("u1") # {}

(***************************************************************************)
(* The quota cache and the quota under interleaved requests                *)
(***************************************************************************)
\* every request has returned
Returned == \A r \in Slots : reqs[r].pc \in {"idle", "done"}

\* the cached count of the user is absent or the number of persisted sounds
Coherent(userId) ==
    \/ quotaCache[userId].state = "absent"
    \/ /\ quotaCache[userId].state = "count"
       /\ quotaCache[userId].count = CountSounds(userId)

\* C32: once every call has returned, the cached count of an owner is absent or
\* equal to the number of the owner's persisted sounds, however the steps of
\* getUserSoundCount (cache miss, count, cache set) interleave with a create or
\* a delete of the same owner (record change, invalidation).
C32_CacheNotOvertaken == Returned => \A u \in UserIds : Coherent(u)

\* C33: while redis answers, the settings stay as stored and the uploads of an
\* owner follow one another, the owner never has more persisted sounds than
\* maxSoundsPerUser, whatever listings and deletions run alongside.
C33_QuotaHolds ==
    (redisUp /\ settingsStore = StoredSettings)
    => \A u \in UserIds :
          CountSounds(u) <= Merge(DEFAULT_SETTINGS, settingsStore).maxSoundsPerUser

(***************************************************************************)
(* The registry and the sockets' own authenticated state                   *)
(***************************************************************************)
\* C34: every registry entry identity -> socket points at a socket whose own
\* authenticated state holds the identity (single-identity build: its
\* steamId64 is the key; multi-identity build: the key is among its
\* authenticatedPlayers), after any sequence of auth messages.
C34_RegistryMatchesSocketData ==
    \A s \in SteamIds : connectedPlayers[s] # None => Holds(connectedPlayers[s], s)

(***************************************************************************)
(* Notifications against the registry and against later mutations          *)
(***************************************************************************)
\* no notify is between its call and its end
NotifiesOver == \A p \in BagToSet(pending) : p.kind # "notify"

\* C35: when a socket stays registered for an identity while mutations of the
\* identity's sounds complete, the sounds_updated that it receives last, once
\* every request has returned and every notify has ended, carries the persisted
\* sounds of the identity.
C35_LastUpdateIsFinal ==
    [][ \A p \in BagToSet(pending) :
            ( /\ Continues(p, "notify", "notifyPlayerSoundsUpdated")
              /\ Returned'
              /\ NotifiesOver'
              /\ connectedPlayers'[p.arg] = p.conn
              /\ Open(p.conn)' )
            => /\ Len(last'.out) = 1
               /\ UNCHANGED <<users, sounds>>
               /\ IsDescListOf(last'.out[1].sounds, users[p.arg].id) ]_vars

\* C36: notify emits sounds_updated on the socket that the registry holds for
\* the identity at the moment of the emission: when the socket that notify found
\* before its await has been displaced since, the message goes to the socket
\* registered now and not to the displaced one.
C36_EmitsOnRegistered ==
    [][ \A p \in BagToSet(pending) :
            ( /\ Continues(p, "notify", "notifyPlayerSoundsUpdated")
              /\ last'.out # <<>>
              /\ connectedPlayers[p.arg] # None )
            => \A i \in 1..Len(last'.out) : last'.out[i].to = connectedPlayers[p.arg] ]_vars

(***************************************************************************)
(* Bans against sockets that authenticated before them                     *)
(***************************************************************************)
\* the identity whose sounds the message serves
ServedBy(m) == IF variant = "multi" THEN m.steamId64 ELSE socketData[m.to].steamId64

\* C37: no step emits a sounds_list or a sound_data for an identity that is
\* banned: a socket that authenticated as a user before the user was banned is
\* not served the user's sounds once the ban is stored.  (In SpecBan get_sounds
\* and play_sound arrive only after the ban.)
C37_BannedIsNotServed ==
    [][ \A i \in 1..Len(last'.out) :
            last'.out[i].type \in {"sounds_list", "sound_data"}
            => \/ ServedBy(last'.out[i]) \notin DOMAIN users'
               \/ ~users'[ServedBy(last'.out[i])].isBanned ]_vars


(***************************************************************************)
(* The settings service with both stores available, from a coherent start  *)
(***************************************************************************)
\* the table Setting as seeded or empty, the key settings:all absent or
\* holding what getSettings caches from that table
InitCoherent ==
    /\ InitBase
    /\ settingsStore \in {NoPartial, StoredSettings}
    /\ settingsCache \in {NoSettingsEntry,
                          CachedSettings(Merge(DEFAULT_SETTINGS, StoredSettings))}
    /\ settingsCache.state = "value" => settingsStore = StoredSettings
    /\ redisUp = TRUE
    /\ limiterBuild = "redis"

\* every call to redis and to the database succeeds
NextCoherent ==
    \/ \E r \in 1..MaxReq, q \in SettingsRequests : SettingsBegin(r, q)
    \/ \E r \in 1..MaxReq : SettingsCacheRead(r)
    \/ \E r \in 1..MaxReq : SettingsStoreRead(r, TRUE)
    \/ \E r \in 1..MaxReq : SettingsFill(r)
    \/ \E r \in 1..MaxReq : SettingsWrite(r, TRUE)
    \/ \E r \in 1..MaxReq : SettingsInvalidate(r)
    \/ \E r \in 1..MaxReq : SettingsRecache(r)

SpecCoherent == InitCoherent /\ [][NextCoherent]_vars

\* C38: once every getSettings and updateSettings call has returned, the key
\* settings:all is absent or holds the settings of the table Setting over the
\* defaults, whatever the interleaving of the calls was
C38_SettingsCacheCoherent ==
    Returned =>
        \/ settingsCache = NoSettingsEntry
        \/ settingsCache = CachedSettings(Merge(DEFAULT_SETTINGS, settingsStore))


(***************************************************************************)
(* Deletions two at a time, with the database and redis available          *)
(***************************************************************************)
NextDeletes ==
    \/ \E r \in 1..MaxReq, q \in StoreDeletes : HttpBegin(r, q)
    \/ \E r \in 1..MaxReq : DeleteFind(r)
    \/ \E r \in 1..MaxReq : DeleteRow(r, TRUE)

SpecDeletes == Init /\ [][NextDeletes]_vars

\* DELETE /sounds/s1 of u1, answered
DeletedS1(r) ==
    /\ reqs[r].pc = "done"
    /\ reqs[r].kind = "delete"
    /\ reqs[r].user = "u1"
    /\ reqs[r].arg = "s1"

\* C39: when two DELETE /sounds/s1 of its owner u1 have both been answered, one
\* was answered 200 and the other 404 NOT_FOUND, never 500; the row s1 and its
\* file are gone and the key quota:count:id1 is absent
C39_OneDeletesOtherNotFound ==
    (DeletedS1(1) /\ DeletedS1(2)) =>
        /\ {reqs[1].response, reqs[2].response} = {"200", "404"}
        /\ FindSound("s1") = NoRow
        /\ <<"u1", "f1">> \notin files
        /\ quotaCache["id1"].state = "absent"


(***************************************************************************)
(* The multi-identity build once socket c1 has authenticated as u1 and as  *)
(* u2: another socket connects and authenticates, and sounds are asked.    *)
(***************************************************************************)
\* the state after c1 connected and its two auth messages were handled;
\* authLog and nOther count the messages received from then on
InitCarrying ==
    /\ variant = "multi"
    /\ users = UserRows
    /\ sounds = SoundRows
    /\ files = {<<"u1", "f1">>, <<"u2", "f2">>}
    /\ \E first \in {"u1", "u2"} :
          socketData = [c \in Conns |->
                          IF c = "c1"
                          THEN [NewSocketData EXCEPT
                                  !.authenticatedPlayers =
                                      MapSet(MapSet(<<>>, first), CHOOSE s \in {"u1", "u2"} : s # first)]
                          ELSE NewSocketData]
    /\ connectedPlayers = [s \in SteamIds |-> IF s \in {"u1", "u2"} THEN "c1" ELSE None]
    /\ status = [c \in Conns |-> IF c = "c1" THEN "open" ELSE "idle"]
    /\ authTimeout = [c \in Conns |-> FALSE]
    /\ elapsed = [c \in Conns |-> FALSE]
    /\ pending = EmptyBag
    /\ authLog = [c \in Conns |-> <<>>]
    /\ nOther = 0
    /\ clientClosed = [c \in Conns |-> FALSE]
    /\ authErrors = [c \in Conns |-> {}]
    /\ last = Last("init", None, None, None, None, <<>>)
    /\ reqs = [r \in Slots |-> NoRequest]
    /\ quotaCache = [u \in UserIds |-> NoQuotaEntry]
    /\ since = [u \in UserIds |-> QuotaTtl]
    /\ rateLimits = [s \in SteamIds |-> NoLimit]
    /\ admitted = [s \in SteamIds |-> <<>>]
    /\ settingsStore = StoredSettings
    /\ settingsCache = NoSettingsEntry
    /\ redisUp = TRUE
    /\ limiterBuild = "redis"

NextCarrying ==
    \/ \E c \in Conns : Connect(c)
    \/ \E c \in Conns, m \in ReadMessages : Receive(c, m)
    \/ \E p \in BagToSet(pending) : AuthResume(p)
    \/ \E p \in BagToSet(pending) : GetSoundsResume(p)
    \/ \E p \in BagToSet(pending) : PlaySoundResume(p)
    \/ \E p \in BagToSet(pending), ioError \in BOOLEAN : ReadFileResume(p, ioError)

SpecCarrying == InitCarrying /\ [][NextCarrying]_vars

\* C40: when handleAuth of the multi-identity build displaces a socket for one
\* identity, every other identity that socket holds and is registered for is
\* still registered to an open socket after the step
C40_OtherIdentitiesKeepSession ==
    [][ \A p \in BagToSet(pending) :
            ( /\ Continues(p, "auth", "handleAuth")
              /\ variant = "multi"
              /\ last'.res = "ok"
              /\ last'.existing # None )
            => \A s \in Keys(socketData[last'.existing].authenticatedPlayers) \ {p.arg} :
                   connectedPlayers[s] = last'.existing
                   => /\ connectedPlayers'[s] # None
                      /\ status'[connectedPlayers'[s]] = "open" ]_vars

====
